---- MODULE Spec2Model ----
(***************************************************************************)
(* A model of the geometric feature-extraction pipeline of                 *)
(* bacterial-exclusion-prediction: absolute_contrast_threshold,            *)
(* filter_by_minimum_area and bacteria_exclusion.                          *)
(*                                                                         *)
(* Conventions.                                                            *)
(*  - An image is a function from Pixels (<<x, y>>, origin top-left) to    *)
(*    0..255; a mask is an image whose values are 0 or 255.                *)
(*  - f32/f64 values are modelled by exact integers or integer fractions:  *)
(*    every quantity that reaches a comparison here is a small integer     *)
(*    or a quotient of two small integers, which f32 orders exactly.       *)
(*  - The imageproc primitives the code calls (find_contours,              *)
(*    draw_polygon_mut, euclidean_squared_distance_transform,              *)
(*    convex_hull) are modelled by the algorithms they implement.          *)
(***************************************************************************)
EXTENDS Integers, Sequences, FiniteSets, TLC

(* ---------------------------------------------------------------------- *)
(* Bounds                                                                  *)
(* ---------------------------------------------------------------------- *)
\* Image width in pixels.
Width == 4
\* Image height in pixels.
Height == 6

Pixels == (0 .. Width - 1) \X (0 .. Height - 1)

\* Raster order of enumerate_pixels: row by row, x fastest.
PixelAt(idx) == << idx % Width, idx \div Width >>

Min(S) == CHOOSE m \in S : \A n \in S : m <= n
Max(S) == CHOOSE m \in S : \A n \in S : n <= m
Abs(n) == IF n < 0 THEN -n ELSE n

Add(p, d) == << p[1] + d[1], p[2] + d[2] >>
Sub(p, q) == << p[1] - q[1], p[2] - q[2] >>

(* ---------------------------------------------------------------------- *)
(* imageproc::contours::find_contours_with_threshold (Suzuki-Abe border   *)
(* following, 8-connected foreground, the frame counted as background).   *)
(* ---------------------------------------------------------------------- *)
\* The neighbour offsets in clockwise order: w nw n ne e se s sw.
Dirs == << <<-1, 0>>, <<-1, -1>>, <<0, -1>>, <<1, -1>>,
           <<1, 0>>, <<1, 1>>, <<0, 1>>, <<-1, 1>> >>
DirIndex(d) == CHOOSE i \in 1 .. 8 : Dirs[i] = d
East == 5
Rot(i) == ((i - 1) % 8) + 1

NonZeroAt(vals, p) == p \in Pixels /\ vals[p] # 0

\* Steps (3.3)-(3.5): follow the border from pos3, having come from pos2.
RECURSIVE Follow(_, _, _, _, _, _, _)
Follow(vals, curr, pos1, pos2, pos3, pts, nbd) ==
  LET s == DirIndex(Sub(pos2, pos3))
      ks == {k \in 1 .. 8 : NonZeroAt(vals, Add(pos3, Dirs[Rot(s - k)]))}
      kmin == Min(ks)
      pos4 == Add(pos3, Dirs[Rot(s - kmin)])
      is_right_edge == \E k \in 1 .. (kmin - 1) : Rot(s - k) = East
      marked == IF pos3[1] + 1 = Width \/ is_right_edge
                  THEN [vals EXCEPT ![pos3] = -nbd]
                  ELSE IF vals[pos3] = 1 THEN [vals EXCEPT ![pos3] = nbd]
                  ELSE vals
      pts2 == Append(pts, pos3)
  IN  IF pos4 = curr /\ pos3 = pos1
        THEN [vals |-> marked, points |-> pts2]
        ELSE Follow(marked, curr, pos1, pos3, pos4, pts2, nbd)

\* Which border, if any, starts at pixel p: step (1) of the algorithm.
BorderStart(vals, p) ==
  IF vals[p] = 1 /\ ~NonZeroAt(vals, << p[1] - 1, p[2] >>) THEN "Outer"
  ELSE IF vals[p] > 0 /\ p[1] + 1 < Width /\ vals[<< p[1] + 1, p[2] >>] = 0
    THEN "Hole"
  ELSE "None"

\* Steps (3.1)-(3.2): trace the border that starts at curr.
TraceBorder(vals, curr, border_type, nbd) ==
  LET adj == IF border_type = "Outer" THEN 1 ELSE East
      hits == {k \in 0 .. 7 : NonZeroAt(vals, Add(curr, Dirs[Rot(adj + k)]))}
  IN  IF hits = {}
        THEN [vals |-> [vals EXCEPT ![curr] = -nbd], points |-> << curr >>]
        ELSE LET pos1 == Add(curr, Dirs[Rot(adj + Min(hits))])
             IN  Follow(vals, curr, pos1, pos1, curr, << >>, nbd)

\* The raster scan; contours come in the order their first pixel is met.
RECURSIVE ScanContours(_, _, _, _)
ScanContours(idx, vals, nbd, contours) ==
  IF idx = Width * Height THEN contours
  ELSE LET p == PixelAt(idx)
           bt == IF vals[p] = 0 THEN "None" ELSE BorderStart(vals, p)
       IN  IF bt = "None" THEN ScanContours(idx + 1, vals, nbd, contours)
           ELSE LET t == TraceBorder(vals, p, bt, nbd + 1)
                IN  ScanContours(idx + 1, t.vals, nbd + 1,
                      Append(contours,
                             [points |-> t.points, border_type |-> bt]))

find_contours_with_threshold(image, threshold) ==
  ScanContours(0, [p \in Pixels |-> IF image[p] > threshold THEN 1 ELSE 0],
               1, << >>)

find_contours(image) == find_contours_with_threshold(image, 0)

(* ---------------------------------------------------------------------- *)
(* filter_by_minimum_area                                                  *)
(* ---------------------------------------------------------------------- *)
\* The loop of the retain closure: twice the signed area, summed edge by
\* edge with previous_point starting at the last point.
RECURSIVE AreaSum(_, _, _)
AreaSum(points, i, previous_point) ==
  IF i > Len(points) THEN 0
  ELSE (previous_point[1] + points[i][1]) * (previous_point[2] - points[i][2])
         + AreaSum(points, i + 1, points[i])

\* An area that drops the half instead of rounding it.
ContourAreaTruncated(points) ==
  Abs(AreaSum(points, 1, points[Len(points)])) \div 2

\* (area / 2.0).abs().round(): f32 round is half away from zero.
ContourArea(points) ==
  (Abs(AreaSum(points, 1, points[Len(points)])) + 1) \div 2

\* A retain test that also keeps an area equal to the minimum.
RetainedAtLeast(contour, minimum_area) ==
  minimum_area <= ContourArea(contour.points)

\* A retain test with the comparison turned round.
RetainedBelow(contour, minimum_area) ==
  ContourArea(contour.points) < minimum_area

\* The retain closure's result.
Retained(contour, minimum_area) == minimum_area < ContourArea(contour.points)

\* imageproc::drawing::draw_polygon_mut refuses a polygon whose first and
\* last point coincide.
DrawPolygonPanics(poly) == poly[1] = poly[Len(poly)]

\* The x values one polygon edge pushes for scanline y.
EdgeIntersections(p0, p1, y) ==
  IF ~((p0[2] <= y /\ p1[2] >= y) \/ (p1[2] <= y /\ p0[2] >= y)) THEN << >>
  ELSE IF p0[2] = p1[2] THEN << p0[1], p1[1] >>
  ELSE (IF p1[2] > y THEN << p0[1] >> ELSE << >>)
         \o (IF p0[2] > y THEN << p1[1] >> ELSE << >>)

\* All intersections of scanline y with the closed polygon, edge i running
\* from poly[i] to its successor (the last edge back to poly[1]).
RECURSIVE Intersections(_, _, _)
Intersections(poly, i, y) ==
  IF i > Len(poly) THEN << >>
  ELSE EdgeIntersections(poly[i], poly[(i % Len(poly)) + 1], y)
         \o Intersections(poly, i + 1, y)

\* A fill whose spans run one pixel too far to the right.
ScanlineDrawsWide(xs, x) ==
  \/ \E i \in DOMAIN xs : xs[i] = x \/ xs[i] = x - 1
  \/ Cardinality({i \in DOMAIN xs : xs[i] < x}) % 2 = 1
  \/ Cardinality({i \in DOMAIN xs : xs[i] < x - 1}) % 2 = 1

\* x is drawn on a scanline with intersections xs: the sorted intersections
\* are taken in pairs and every x of a pair's range is drawn. x lies in some
\* pair's range iff an intersection equals x or an odd number lie left of it.
ScanlineDraws(xs, x) ==
  \/ \E i \in DOMAIN xs : xs[i] = x
  \/ Cardinality({i \in DOMAIN xs : xs[i] < x}) % 2 = 1

\* A closing pass that draws no edge at all.
EdgeDrawsNone(poly, p) == FALSE

\* Pixel p is drawn by the closing pass, draw_line_segment_mut over every
\* edge: contour edges join 8-neighbours, so a segment is its two ends.
EdgeDraws(poly, p) == \E i \in DOMAIN poly : poly[i] = p

\* imageproc::drawing::draw_polygon_mut
DrawPolygon(canvas, poly, color) ==
  LET scanlines == [y \in 0 .. Height - 1 |-> Intersections(poly, 1, y)]
  IN  [p \in Pixels |->
        IF ScanlineDraws(scanlines[p[2]], p[1]) \/ EdgeDraws(poly, p)
          THEN color ELSE canvas[p]]

RECURSIVE DrawContours(_, _, _)
DrawContours(canvas, contours, i) ==
  IF i > Len(contours) THEN canvas
  ELSE DrawContours(DrawPolygon(canvas, contours[i].points, 255),
                    contours, i + 1)

Blank == [p \in Pixels |-> 0]

\* contours.retain(..)
RetainContours(contours, minimum_area) ==
  SelectSeq(contours, LAMBDA c : Retained(c, minimum_area))

RetainedContours(mask, minimum_area) ==
  RetainContours(find_contours(mask), minimum_area)

filter_by_minimum_area(mask, minimum_area) ==
  DrawContours(Blank, RetainedContours(mask, minimum_area), 1)

(* ---------------------------------------------------------------------- *)
(* absolute_contrast_threshold                                             *)
(* ---------------------------------------------------------------------- *)
\* A coordinate that wraps round the image instead of clamping.
ClampWrapped(v, n) == v % n

\* (v).clamp(0, n - 1)
Clamp(v, n) == IF v < 0 THEN 0 ELSE IF v > n - 1 THEN n - 1 ELSE v

\* The offsets << vx, vy >> in the order the two nested loops visit them,
\* the centre skipped.
Offsets == << <<-1, -1>>, <<-1, 0>>, <<-1, 1>>, <<0, -1>>,
              <<0, 1>>, <<1, -1>>, <<1, 0>>, <<1, 1>> >>

\* One term of the sum: |opposite - pixel| for offset v.
AbsoluteDifference(image, p, v) ==
  LET pixel == image[<< Clamp(p[1] + v[1], Width), Clamp(p[2] + v[2], Height) >>]
      opposite == image[<< Clamp(p[1] - v[1], Width), Clamp(p[2] - v[2], Height) >>]
  IN  Abs(opposite - pixel)

\* summed_difference after the first i offsets; count is then i.
RECURSIVE SummedDifference(_, _, _)
SummedDifference(image, p, i) ==
  IF i = 0 THEN 0
  ELSE SummedDifference(image, p, i - 1)
         + AbsoluteDifference(image, p, Offsets[i])

\* A mask of zeros and ones.
ThresholdedPixelUnit(summed_difference, count, threshold8) ==
  IF threshold8 * count < 8 * summed_difference THEN 1 ELSE 0

\* threshold < summed_difference / count. A threshold is held in eighths
\* (threshold8 = 8 * threshold), which the division by count = 8 makes exact.
ThresholdedPixel(summed_difference, count, threshold8) ==
  IF threshold8 * count < 8 * summed_difference THEN 255 ELSE 0

\* absolute_difference as u8: the fraction cut off.
ContrastPixelTruncated(summed_difference, count) ==
  summed_difference \div count

\* absolute_difference.round() as u8: half away from zero.
ContrastPixel(summed_difference, count) ==
  (2 * summed_difference + count) \div (2 * count)

\* Returns (thresholded_contrast, contrast).
absolute_contrast_threshold(image, threshold8) ==
  LET count == Len(Offsets)
      summed == [p \in Pixels |-> SummedDifference(image, p, count)]
  IN  << [p \in Pixels |-> ThresholdedPixel(summed[p], count, threshold8)],
         [p \in Pixels |-> ContrastPixel(summed[p], count)] >>

(* ---------------------------------------------------------------------- *)
(* Unsigned 32-bit arithmetic. A u32 is held as << hi, lo >>, two 16-bit   *)
(* halves, and products are formed from 8-bit pieces, so that no           *)
(* intermediate value leaves the range of the checker's integers.          *)
(* ---------------------------------------------------------------------- *)
Half == 65536
Byte == 256

U32(n) == << n \div Half, n % Half >>
\* Defined for values below 2^31.
U32ToInt(u) == u[1] * Half + u[2]

\* a * b mod 2^16, and a * b div 2^16, for 16-bit a and b.
MulLow16(a, b) ==
  ((a % Byte) * (b % Byte)
     + ((((a \div Byte) * (b % Byte) + (a % Byte) * (b \div Byte)) % Byte)
          * Byte)) % Half
MulHigh16(a, b) ==
  LET cross == (a \div Byte) * (b % Byte) + (a % Byte) * (b \div Byte)
      low == (a % Byte) * (b % Byte) + (cross % Byte) * Byte
  IN  (a \div Byte) * (b \div Byte) + cross \div Byte + low \div Half

\* u32::wrapping_sub, wrapping_add and wrapping_mul.
WrappingSub(a, b) ==
  LET lo == a[2] - b[2]
      borrow == IF lo < 0 THEN 1 ELSE 0
  IN  << (a[1] - b[1] - borrow) % Half, lo % Half >>
WrappingAdd(a, b) ==
  LET lo == a[2] + b[2]
  IN  << (a[1] + b[1] + lo \div Half) % Half, lo % Half >>
WrappingMul(a, b) ==
  << (MulHigh16(a[2], b[2]) + MulLow16(a[1], b[2]) + MulLow16(a[2], b[1]))
        % Half,
     MulLow16(a[2], b[2]) >>

\* a - b, a + b or a * b leaves the u32 range (a debug build panics there).
SubOverflows(a, b) == a[1] < b[1] \/ (a[1] = b[1] /\ a[2] < b[2])
AddOverflows(a, b) == a[1] + b[1] + (a[2] + b[2]) \div Half >= Half
MulOverflows(a, b) ==
  \/ a[1] # 0 /\ b[1] # 0
  \/ MulHigh16(a[1], b[2]) # 0
  \/ MulHigh16(a[2], b[1]) # 0
  \/ MulHigh16(a[2], b[2]) + MulLow16(a[1], b[2]) + MulLow16(a[2], b[1])
       >= Half

(* ---------------------------------------------------------------------- *)
(* bacteria_exclusion: the exclusion zone                                  *)
(* ---------------------------------------------------------------------- *)
SquaredDistance(p, q) ==
  (p[1] - q[1]) * (p[1] - q[1]) + (p[2] - q[2]) * (p[2] - q[2])

\* imageproc::distance_transform::euclidean_squared_distance_transform: the
\* squared distance to the nearest non-zero pixel, f64 infinity when the
\* mask has none. A value is [inf |-> .., val |-> ..].
euclidean_squared_distance_transform(mask) ==
  LET on == {q \in Pixels : mask[q] # 0}
  IN  [p \in Pixels |->
        IF on = {} THEN [inf |-> TRUE, val |-> 0]
        ELSE [inf |-> FALSE,
              val |-> Min({SquaredDistance(p, q) : q \in on})]]

\* A radius check that would also reject a radius of exactly 1.0.
RadiusAtMostOne(exclusion_radius, scale) == exclusion_radius <= scale

\* bacteria_exclusion_radius < 1.0, the radius being exclusion_radius / scale
\* with scale > 0.
RadiusTooSmall(exclusion_radius, scale) == exclusion_radius < scale

\* distances.get_pixel(x, y).0[0] < bacteria_exclusion_radius.into()
BelowRadius(distance, exclusion_radius, scale) ==
  ~distance.inf /\ distance.val * scale < exclusion_radius

\* The loop that fills bacteria_exclusion_zone.
ExclusionZone(distances, exclusion_radius, scale) ==
  [p \in Pixels |->
    IF BelowRadius(distances[p], exclusion_radius, scale) THEN 255 ELSE 0]

\* non_zero_count after that loop.
NonZeroCount(zone) == Cardinality({p \in Pixels : zone[p] = 255})

(* ---------------------------------------------------------------------- *)
(* Fractions << numerator, denominator >>, denominator > 0, for the f32    *)
(* ratios.                                                                 *)
(* ---------------------------------------------------------------------- *)
RECURSIVE Gcd(_, _)
Gcd(a, b) == IF b = 0 THEN a ELSE Gcd(b, a % b)
Frac(n, d) ==
  LET g == Gcd(Abs(n), d) IN IF g = 0 THEN << 0, 1 >> ELSE << n \div g, d \div g >>
FracAdd(a, b) == Frac(a[1] * b[2] + b[1] * a[2], a[2] * b[2])
FracLeq(a, b) == a[1] * b[2] <= b[1] * a[2]

(* ---------------------------------------------------------------------- *)
(* bacteria_exclusion: the radius adjustment                               *)
(* ---------------------------------------------------------------------- *)
\* imageproc::geometry::orientation's determinant: negative for a
\* counter-clockwise turn p, q, r, zero for collinear points.
Orientation(p, q, r) ==
  (q[2] - p[2]) * (r[1] - q[1]) - (q[1] - p[1]) * (r[2] - q[2])

\* The point the Graham scan starts from: least y, then least x.
StartPoint(S) ==
  CHOOSE s \in S : \A t \in S : s[2] < t[2] \/ (s[2] = t[2] /\ s[1] <= t[1])

\* The hull vertex that follows vertex cur: every other point lies
\* counter-clockwise of cur -> q, or on it and no farther than q.
NextHullPoint(S, cur) ==
  CHOOSE q \in S \ {cur} :
    \A r \in S \ {cur, q} :
      \/ Orientation(cur, q, r) < 0
      \/ /\ Orientation(cur, q, r) = 0
         /\ SquaredDistance(cur, r) <= SquaredDistance(cur, q)

RECURSIVE HullFrom(_, _, _)
HullFrom(S, start, stack) ==
  LET q == NextHullPoint(S, stack[Len(stack)])
  IN  IF q = start THEN stack ELSE HullFrom(S, start, Append(stack, q))

\* imageproc::geometry::convex_hull: the corners of the convex hull of the
\* points, counter-clockwise from the start point, no collinear point kept.
convex_hull(points) ==
  LET S == {points[i] : i \in DOMAIN points}
  IN  IF S = {} THEN << >>
      ELSE IF Cardinality(S) = 1 THEN << StartPoint(S) >>
      ELSE HullFrom(S, StartPoint(S), << StartPoint(S) >>)

\* outer_contours.into_iter().flat_map(|c| c.points).collect()
RECURSIVE FlatPoints(_, _)
FlatPoints(contours, i) ==
  IF i > Len(contours) THEN << >>
  ELSE contours[i].points \o FlatPoints(contours, i + 1)

\* The side of pixel p relative to the hull edge previous_point -> point.
LineDistance(previous_point, point, p) ==
  (previous_point[1] - point[1]) * (p[2] - point[2])
    - (p[1] - point[1]) * (previous_point[2] - point[2])

\* A hull test that lets a pixel exactly on an edge pass.
RECURSIVE WithinHullOrOnEdge(_, _, _, _)
WithinHullOrOnEdge(hull, i, previous_point, p) ==
  IF i > Len(hull) THEN TRUE
  ELSE IF 0 < LineDistance(previous_point, hull[i], p) THEN FALSE
  ELSE WithinHullOrOnEdge(hull, i + 1, hull[i], p)

\* The inner loop over the hull's edges, previous_point starting at the
\* last corner: FALSE as soon as one edge has 0.0 <= line_distance.
RECURSIVE WithinHull(_, _, _, _)
WithinHull(hull, i, previous_point, p) ==
  IF i > Len(hull) THEN TRUE
  ELSE IF 0 <= LineDistance(previous_point, hull[i], p) THEN FALSE
  ELSE WithinHull(hull, i + 1, hull[i], p)

\* f32 sqrt then round: the d with (d - 1/2)^2 <= n < (d + 1/2)^2.
RoundedSqrt(n) == CHOOSE d \in 0 .. n : d * d - d < n /\ n <= d * d + d

\* (width - x).pow(2) + (y - height / 2).pow(2), in u32.
CentreTerms(p) ==
  LET dx == WrappingSub(U32(Width), U32(p[1]))
      dy == WrappingSub(U32(p[2]), U32(Height \div 2))
  IN  << WrappingMul(dx, dx), WrappingMul(dy, dy) >>
CentreDistanceOverflows(p) ==
  LET dx == WrappingSub(U32(Width), U32(p[1]))
      dy == WrappingSub(U32(p[2]), U32(Height \div 2))
  IN  \/ SubOverflows(U32(Width), U32(p[1]))
      \/ SubOverflows(U32(p[2]), U32(Height \div 2))
      \/ MulOverflows(dx, dx) \/ MulOverflows(dy, dy)
      \/ AddOverflows(CentreTerms(p)[1], CentreTerms(p)[2])
\* The distance held down to the index of the last bucket.
CentreDistanceClamped(p) ==
  Min({RoundedSqrt(U32ToInt(WrappingAdd(CentreTerms(p)[1],
                                        CentreTerms(p)[2]))),
       Width - 1})
CentreDistance(p) ==
  RoundedSqrt(U32ToInt(WrappingAdd(CentreTerms(p)[1], CentreTerms(p)[2])))

\* The 'outer loop from the pixel at raster index idx on. overflow_checks
\* is the build's setting: with it, u32 overflow panics, without it the
\* arithmetic wraps. The result records the bucket table, the pixels that
\* passed the hull test, the pixels added to a bucket and whether the loop
\* panicked (hull.last().unwrap() on an empty hull, or an overflow).
RECURSIVE RadiusLoop(_, _, _, _, _, _, _)
RadiusLoop(zone, hull, overflow_checks, idx, buckets, included, accumulated) ==
  IF idx = Width * Height
    THEN [panicked |-> FALSE, buckets |-> buckets, included |-> included,
          accumulated |-> accumulated]
  ELSE IF hull = << >>
    THEN [panicked |-> TRUE, buckets |-> buckets, included |-> included,
          accumulated |-> accumulated]
  ELSE LET p == PixelAt(idx)
       IN  IF ~WithinHull(hull, 1, hull[Len(hull)], p)
             THEN RadiusLoop(zone, hull, overflow_checks, idx + 1, buckets,
                             included, accumulated)
           ELSE IF overflow_checks /\ CentreDistanceOverflows(p)
             THEN [panicked |-> TRUE, buckets |-> buckets,
                   included |-> included \cup {p},
                   accumulated |-> accumulated]
           ELSE LET distance == CentreDistance(p)
                    hit == IF zone[p] = 255 THEN 1 ELSE 0
                IN  IF Width <= distance
                      THEN RadiusLoop(zone, hull, overflow_checks, idx + 1,
                                      buckets, included \cup {p}, accumulated)
                      ELSE RadiusLoop(zone, hull, overflow_checks, idx + 1,
                             [buckets EXCEPT ![distance] =
                                << @[1] + hit, @[2] + 1 >>],
                             included \cup {p}, accumulated \cup {p})

\* vec![(0.0, 0); input_image.width() as usize]
EmptyBuckets == [d \in 0 .. Width - 1 |-> << 0, 0 >>]

\* A bucket left as the 'outer loop filled it: the sum, not averaged.
BucketTotal(bucket) == Frac(bucket[1], 1)

\* The mean of a bucket once the averaging loop has run: sum / count, the
\* sum left as it is (0) in a bucket without samples.
BucketMean(bucket) ==
  IF 0 < bucket[2] THEN Frac(bucket[1], bucket[2]) ELSE Frac(bucket[1], 1)

\* Sum of slice_area * value over the buckets from d on, in units of pi:
\* slice_area = d^2 pi - (d - 1)^2 pi.
RECURSIVE WeightedSum(_, _)
WeightedSum(buckets, d) ==
  IF d > Width - 1 THEN << 0, 1 >>
  ELSE LET slice_area == d * d - (d - 1) * (d - 1)
           value == BucketMean(buckets[d])
       IN  FracAdd(Frac(slice_area * value[1], value[2]),
                   WeightedSum(buckets, d + 1))

\* bacteria_exclusion / ((width - 1)^2 * PI), the PI of the slices and of
\* the circle cancelling.
AdjustedRatio(buckets) ==
  LET sum == WeightedSum(buckets, 0)
  IN  Frac(sum[1], sum[2] * (Width - 1) * (Width - 1))

(* ---------------------------------------------------------------------- *)
(* graphene_angles: the flake of one contour                               *)
(* ---------------------------------------------------------------------- *)
\* contour.points.iter().step_by(5): the points at indices 0, 5, 10, ...
sample_points(points) ==
  [i \in 1 .. (Len(points) + 4) \div 5 |-> points[5 * (i - 1) + 1]]

\* (a.x - b.x).pow(2) as f32 + (a.y - b.y).pow(2) as f32: the subtractions
\* and squares in u32, the sum in f32. The square root is left out: the
\* model holds distances by their squares.
PairSquaredDistance(a, b) ==
  LET dx == WrappingSub(U32(a[1]), U32(b[1]))
      dy == WrappingSub(U32(a[2]), U32(b[2]))
  IN  U32ToInt(WrappingMul(dx, dx)) + U32ToInt(WrappingMul(dy, dy))
PairDistanceOverflows(a, b) ==
  LET dx == WrappingSub(U32(a[1]), U32(b[1]))
      dy == WrappingSub(U32(a[2]), U32(b[2]))
  IN  \/ SubOverflows(U32(a[1]), U32(b[1]))
      \/ SubOverflows(U32(a[2]), U32(b[2]))
      \/ MulOverflows(dx, dx) \/ MulOverflows(dy, dy)

\* The double loop over the sample points from its k-th pair on. best holds
\* point_1, point_2 and current_maximum_distance (squared); a build with
\* overflow checks panics at the first pair whose u32 arithmetic overflows.
RECURSIVE FurthestLoop(_, _, _, _)
FurthestLoop(samples, checks, k, best) ==
  IF k = Len(samples) * Len(samples) THEN best
  ELSE LET sample_p1 == samples[(k \div Len(samples)) + 1]
           sample_p2 == samples[(k % Len(samples)) + 1]
       IN  IF checks /\ PairDistanceOverflows(sample_p1, sample_p2)
             THEN [best EXCEPT !.panicked = TRUE]
           ELSE LET distance == PairSquaredDistance(sample_p1, sample_p2)
                IN  IF best.squared < distance
                      THEN FurthestLoop(samples, checks, k + 1,
                             [point_1 |-> sample_p1, point_2 |-> sample_p2,
                              squared |-> distance, panicked |-> FALSE])
                      ELSE FurthestLoop(samples, checks, k + 1, best)

\* current_maximum_distance * scale < config.min_graphene_size, scale and
\* size in tenths. The product is never negative, so a size of 0 or less
\* rejects nothing.
TooSmall(squared, scale10, min_graphene_size10) ==
  /\ 0 < min_graphene_size10
  /\ squared * scale10 * scale10 < min_graphene_size10 * min_graphene_size10

\* |(p2.y - p1.y)(p1.x - p.x) - (p1.y - p.y)(p2.x - p1.x)|, in f32: the
\* distance of p to the line times current_maximum_distance.
LineCross(point_1, point_2, point) ==
  Abs((point_2[2] - point_1[2]) * (point_1[1] - point[1])
        - (point_1[2] - point[2]) * (point_2[1] - point_1[1]))

\* The loop over the sample points from the i-th on. Every distance is the
\* cross product divided by the same current_maximum_distance, so the loop
\* is held by the cross products; with current_maximum_distance = 0.0 every
\* distance is 0.0 / 0.0 = NaN and no comparison succeeds.
RECURSIVE LineLoop(_, _, _, _)
LineLoop(samples, pair, i, best) ==
  IF i > Len(samples) THEN best
  ELSE LET distance == LineCross(pair.point_1, pair.point_2, samples[i])
       IN  IF pair.squared # 0 /\ best.cross < distance
             THEN LineLoop(samples, pair, i + 1,
                           [point_3 |-> samples[i], cross |-> distance])
             ELSE LineLoop(samples, pair, i + 1, best)

\* current_maximum_distance / maximum_distance_to_line <
\* config.min_graphene_ratio, the ratio in tenths. The quotient is
\* squared / cross; with cross = 0 it is +inf, or NaN when squared = 0 too,
\* and the comparison is false.
TooRound(squared, cross, min_graphene_ratio10) ==
  /\ 0 < cross
  /\ squared * 10 < min_graphene_ratio10 * cross

\* y.atan2(x) as a direction in the closed upper half plane and a number of
\* half turns: the angle is that of dir, in [0, pi), plus pi * half_turns.
\* atan2(0, 0) is 0.
Atan2(y, x) ==
  IF y > 0 \/ (y = 0 /\ x > 0) THEN [dir |-> << x, y >>, half_turns |-> 0]
  ELSE IF y = 0 /\ x = 0 THEN [dir |-> << 1, 0 >>, half_turns |-> 0]
  ELSE IF y = 0 THEN [dir |-> << -x, 0 >>, half_turns |-> 1]
  ELSE [dir |-> << -x, -y >>, half_turns |-> -1]

\* The angle left as atan2 gives it.
NotReduced(angle) == angle

\* angle.rem_euclid(PI): the angle brought into [0, pi).
RemEuclidPi(angle) == [angle EXCEPT !.half_turns = 0]

\* FRAC_PI_2 - atan2(p2.y - p1.y, p2.x - p1.x).rem_euclid(PI). The record
\* stands for pi/2 minus the angle it holds.
FlakeAngle(point_1, point_2) ==
  RemEuclidPi(Atan2(point_2[2] - point_1[2], point_2[1] - point_1[1]))

\* abs_diff / 2.0 + min of the two coordinates, doubled.
FlakeCenter2(point_1, point_2) ==
  << Abs(point_1[1] - point_2[1]) + 2 * Min({point_1[1], point_2[1]}),
     Abs(point_1[2] - point_2[2]) + 2 * Min({point_1[2], point_2[2]}) >>

\* One pass of the loop body over a contour. outcome tells how the pass
\* ended: "hole", "too_small" and "too_round" are the three continues,
\* "emitted" the two pushes, "panicked" an overflow the build checks.
AnalyzeContour(contour, config, scale10, checks) ==
  LET samples == sample_points(contour.points)
      start == [point_1 |-> samples[1], point_2 |-> samples[1],
                squared |-> 0, panicked |-> FALSE]
      pair == FurthestLoop(samples, checks, 0, start)
      line == LineLoop(samples, pair, 1,
                       [point_3 |-> samples[1], cross |-> 0])
      outcome ==
        IF contour.border_type = "Hole" THEN "hole"
        ELSE IF pair.panicked THEN "panicked"
        ELSE IF TooSmall(pair.squared, scale10, config.min_graphene_size10)
          THEN "too_small"
        ELSE IF TooRound(pair.squared, line.cross, config.min_graphene_ratio10)
          THEN "too_round"
        ELSE "emitted"
  IN  [outcome |-> outcome,
       samples |-> samples,
       point_1 |-> pair.point_1,
       point_2 |-> pair.point_2,
       squared |-> pair.squared,
       cross |-> line.cross,
       point_3 |-> line.point_3,
       center2 |-> FlakeCenter2(pair.point_1, pair.point_2),
       angle |-> FlakeAngle(pair.point_1, pair.point_2),
       length_squared100 |-> pair.squared * scale10 * scale10]

\* A contour with its points in the opposite order.
Reversed(contour) ==
  [contour EXCEPT
     !.points = [i \in 1 .. Len(contour.points) |->
                   contour.points[Len(contour.points) + 1 - i]]]

(* ---------------------------------------------------------------------- *)
(* determine_scale (text_recognition.rs)                                   *)
(* ---------------------------------------------------------------------- *)
\* u32::MAX and u32::MIN, the first fields the extreme lines start with,
\* as pairs of 16-bit halves; a < b on such pairs.
U32Max == << Half - 1, Half - 1 >>
U32Min == << 0, 0 >>
U32Less(a, b) == a[1] < b[1] \/ (a[1] = b[1] /\ a[2] < b[2])

\* The outer border contours::find_contours traces round a solid bright
\* block [x0 .. x1] x [y0 .. y1] of the thresholded footer, x0 < x1: from
\* the top left corner down the left side, along the bottom row, up the
\* right side and back along the top row. A block one row high gives its
\* row forth and back.
RectangleBorder(rect) ==
  LET x0 == rect[1]
      y0 == rect[2]
      x1 == rect[3]
      y1 == rect[4]
      left == [i \in 1 .. y1 - y0 + 1 |-> << x0, y0 + i - 1 >>]
      bottom == [i \in 1 .. x1 - x0 |-> << x0 + i, y1 >>]
      right == [i \in 1 .. y1 - y0 |-> << x1, y1 - i >>]
      top == [i \in 1 .. x1 - x0 - 1 |-> << x1 - i, y0 >>]
  IN  [points |-> left \o bottom \o right \o top, border_type |-> "Outer"]

\* if maximum_point.x - minimum_point.x < 16: the line is too short.
TooShort(minimum_point, maximum_point) ==
  maximum_point[1] - minimum_point[1] < 16

\* The inner loop over the points of one contour, from point i on. A line is
\* closed when a point on another row comes; lines holds minimum_line,
\* maximum_line and the lines that passed the length test (those drawn on
\* the debug image), in the order they were closed.
RECURSIVE ScanLinePoints(_, _, _, _, _)
ScanLinePoints(points, i, line_start, line_end, lines) ==
  IF i > Len(points) THEN lines
  ELSE
    LET point == points[i]
        minimum_point == IF line_start[1] < line_end[1]
                           THEN line_start ELSE line_end
        maximum_point == IF line_start[1] < line_end[1]
                           THEN line_end ELSE line_start
    IN  IF point[2] = line_start[2]
          THEN ScanLinePoints(points, i + 1, line_start, point, lines)
        ELSE IF TooShort(minimum_point, maximum_point)
          THEN ScanLinePoints(points, i + 1, point, point, lines)
        ELSE
          ScanLinePoints(points, i + 1, point, point,
            [minimum_line |->
               IF U32Less(U32(minimum_point[1]), lines.minimum_line[1])
                 THEN << U32(minimum_point[1]), maximum_point[1],
                         minimum_point[2] >>
                 ELSE lines.minimum_line,
             maximum_line |->
               IF U32Less(lines.maximum_line[1], U32(maximum_point[1]))
                 THEN << U32(maximum_point[1]), minimum_point[1],
                         maximum_point[2] >>
                 ELSE lines.maximum_line,
             accepted |->
               Append(lines.accepted,
                      << minimum_point[1], maximum_point[1],
                         minimum_point[2] >>)])

\* let mut minimum_line = (u32::MAX, 0, 0); let mut maximum_line = ..
NoLines == [minimum_line |-> << U32Max, 0, 0 >>,
            maximum_line |-> << U32Min, 0, 0 >>,
            accepted |-> << >>]

\* for contour in contours { .. }, from contour i on.
RECURSIVE FindExtremeLines(_, _, _)
FindExtremeLines(contours_, i, lines) ==
  IF i > Len(contours_) THEN lines
  ELSE FindExtremeLines(contours_, i + 1,
         ScanLinePoints(contours_[i].points, 1, contours_[i].points[1],
                        contours_[i].points[1], lines))

\* if minimum_line.0 == u32::MAX || maximum_line.0 == u32::MIN
LinesMissing(minimum_line, maximum_line) ==
  minimum_line[1] = U32Max \/ maximum_line[1] = U32Min

\* if maximum_line.0.abs_diff(minimum_line.0)
\*      < maximum_line.2.abs_diff(minimum_line.2) * 20
NonHorizontal(minimum_line, maximum_line) ==
  Abs(U32ToInt(maximum_line[1]) - U32ToInt(minimum_line[1]))
    < Abs(maximum_line[3] - minimum_line[3]) * 20

\* The u32 arguments of the crop round the text leave the u32 range:
\* scale_bar_height + maximum_line.2 - 18 and
\* maximum_line.1 - minimum_line.1 - 4.
TextCropUnderflows(minimum_line, maximum_line, bar_height) ==
  \/ bar_height + maximum_line[3] < 18
  \/ maximum_line[2] < minimum_line[2] + 4

\* str::trim on the text, a sequence of characters.
IsWhitespace(c) == c \in {" ", "\n"}
RECURSIVE Trim(_)
Trim(text) ==
  IF text = << >> THEN text
  ELSE IF IsWhitespace(text[1]) THEN Trim(Tail(text))
  ELSE IF IsWhitespace(text[Len(text)])
    THEN Trim(SubSeq(text, 1, Len(text) - 1))
  ELSE text

\* text.strip_suffix("um"): Some(rest) as << TRUE, rest >>, None as
\* << FALSE, << >> >>.
StripSuffixUm(text) ==
  IF Len(text) >= 2 /\ text[Len(text) - 1] = "u" /\ text[Len(text)] = "m"
    THEN << TRUE, SubSeq(text, 1, Len(text) - 2) >>
    ELSE << FALSE, << >> >>

DecimalDigits == << "0", "1", "2", "3", "4", "5", "6", "7", "8", "9" >>
IsDigit(c) == \E d \in 1 .. 10 : DecimalDigits[d] = c
DigitValue(c) == (CHOOSE d \in 1 .. 10 : DecimalDigits[d] = c) - 1

\* digits.parse::<f32>() on the characters tesseract is allowed to print:
\* a non-empty string of digits parses to its decimal value, anything else
\* is an error (-1).
RECURSIVE ParseDigits(_, _)
ParseDigits(digits, value) ==
  IF digits = << >> THEN value
  ELSE IF ~IsDigit(digits[1]) THEN -1
  ELSE ParseDigits(Tail(digits), 10 * value + DigitValue(digits[1]))

\* The match on text.trim().strip_suffix("um"): the distance in
\* micrometers, or -1 for Error::FailedToDetectText.
MicrometerDistance(text) ==
  LET stripped == StripSuffixUm(Trim(text))
      digits == Trim(stripped[2])
  IN  IF ~stripped[1] \/ digits = << >> THEN -1
      ELSE ParseDigits(digits, 0)

(* ---------------------------------------------------------------------- *)
(* Inputs                                                                  *)
(* ---------------------------------------------------------------------- *)
\* Axis-aligned blocks of pixels, and no block at all.
Rects ==
  {r \in (0 .. Width - 1) \X (0 .. Height - 1) \X (1 .. Width) \X (1 .. Height) :
     r[1] + r[3] <= Width /\ r[2] + r[4] <= Height}
InRect(r, p) ==
  /\ r[1] <= p[1] /\ p[1] < r[1] + r[3]
  /\ r[2] <= p[2] /\ p[2] < r[2] + r[4]
RectImage(r, inside, outside) ==
  [p \in Pixels |-> IF InRect(r, p) THEN inside ELSE outside]
Uniform(level) == [p \in Pixels |-> level]

\* The blocks that start at the origin.
AnchoredRects == {r \in Rects : r[1] = 0 /\ r[2] = 0}

\* Images for bacteria_exclusion: all black, all bright, a bright block on
\* black, or a black block at the origin of a bright image.
PipelineImages ==
  {Uniform(0), Uniform(200)}
    \cup {RectImage(r, 200, 0) : r \in Rects}
    \cup {RectImage(r, 0, 200) : r \in AnchoredRects}

\* Masks for filter_by_minimum_area: a block, and a block at the origin
\* with one pixel flipped, or with one pixel and the far corner flipped.
Flip(mask, q) == [mask EXCEPT ![q] = 255 - @]
FilterMasks ==
  LET blocks == {RectImage(r, 255, 0) : r \in Rects}
      anchored == {RectImage(r, 255, 0) : r \in AnchoredRects}
  IN  blocks
        \cup {Flip(m, q) : m \in anchored, q \in Pixels}
        \cup {Flip(Flip(m, q), << Width - 1, Height - 1 >>) :
                m \in anchored, q \in Pixels}

\* Masks for graphene_angles: a block, or a block at the origin with one
\* pixel flipped.
GrapheneMasks ==
  {RectImage(r, 255, 0) : r \in Rects}
    \cup {Flip(RectImage(r, 255, 0), q) : r \in AnchoredRects, q \in Pixels}
\* min_graphene_size and min_graphene_ratio in tenths: the defaults 0.5 and
\* 3.0, and 0.0, 3.0 and 1.5.
DefaultMinGrapheneSize10 == 5
DefaultMinGrapheneRatio10 == 30
MinGrapheneSizes10 == {0, DefaultMinGrapheneSize10, 30}
MinGrapheneRatios10 == {15, DefaultMinGrapheneRatio10}

\* The files a directory may hold, in the order sort_unstable gives paths.
SortedPaths ==
  << [stem |-> "a", extension |-> "png"],
     [stem |-> "a", extension |-> "tif"],
     [stem |-> "a", extension |-> "tiff"],
     [stem |-> "b", extension |-> "tif"],
     [stem |-> "b", extension |-> "tiff"] >>
Paths == {SortedPaths[i] : i \in 1 .. Len(SortedPaths)}
\* At most this many files in the directory.
MaxFiles == 3
Directories ==
  {d \in SUBSET Paths : 0 < Cardinality(d) /\ Cardinality(d) <= MaxFiles}
\* enabled of bacteria_exclusion and graphene_angles, and radius_adjusted:
\* the defaults, and both analyses with the radius adjustment.
DefaultBatchConfig ==
  [bacteria_exclusion_enabled |-> TRUE, graphene_angles_enabled |-> FALSE,
   radius_adjusted |-> FALSE]
BatchConfigs ==
  {DefaultBatchConfig,
   [bacteria_exclusion_enabled |-> TRUE, graphene_angles_enabled |-> TRUE,
    radius_adjusted |-> TRUE],
   [bacteria_exclusion_enabled |-> FALSE, graphene_angles_enabled |-> TRUE,
    radius_adjusted |-> FALSE]}
\* bacteria_exclusion_ratio * 100.0, as bacteria_exclusion may return it.
RatioValues == {0, 50}

\* Images for absolute_contrast_threshold: a block of one level on another,
\* and corner-anchored blocks with one pixel set to a third level.
ContrastLevels == {<< 0, 200 >>, << 255, 0 >>, << 100, 101 >>}
ContrastImages ==
  {RectImage(r, l[1], l[2]) : r \in Rects, l \in ContrastLevels}
    \cup {[RectImage(r, 0, 200) EXCEPT ![q] = 55] :
            r \in AnchoredRects, q \in Pixels}

\* configuration.rs: contrast_threshold 45.0, in eighths.
DefaultContrastThreshold8 == 360
\* Thresholds in eighths: 0.0, 0.625 and 50.0.
ContrastThresholds8 == {0, 5, 400}
\* minimum_edge_area values; 5 is the default.
MinimumAreas == {0, 1, 5}
\* << exclusion_radius, scale >> in a common unit: 0.9, 1 and 2 pixels.
RadiusInputs == {<< 9, 10 >>, << 1, 1 >>, << 2, 1 >>}

\* Footers for determine_scale: the bright blocks of the thresholded footer,
\* a left one and a right one, each present or not, 16 to 18 pixels wide,
\* one or two rows high, starting on row 15 or 17.
FooterLeftBlocks ==
  {<< 1, y0, x1, y0 + rows - 1 >> :
     x1 \in {16, 17, 18}, y0 \in {15, 17}, rows \in {1, 2}}
FooterRightBlocks ==
  {<< 24, y0, x1, y0 + rows - 1 >> :
     x1 \in {39, 40, 41}, y0 \in {15, 17}, rows \in {1, 2}}

\* Two blocks in the order find_contours meets their top left corners.
RasterOrder(a, b) ==
  IF a[2] < b[2] \/ (a[2] = b[2] /\ a[1] < b[1])
    THEN << a, b >> ELSE << b, a >>

Footers ==
  {<< >>}
    \cup {<< a >> : a \in FooterLeftBlocks \cup FooterRightBlocks}
    \cup {RasterOrder(a, b) : a \in FooterLeftBlocks, b \in FooterRightBlocks}

ScaleImageHeights == {64}

\* The row the mode of the brightness steps gives: none found, or row 2.
DetectedBarHeights == {0, 2}

DefaultTextRecognition ==
  [override_scale |-> FALSE, scale_bar_height |-> 0,
   override_scale_micrometers |-> 0, override_scale_pixels |-> 0]

TextRecognitionConfigs ==
  {DefaultTextRecognition,
   [override_scale |-> TRUE, scale_bar_height |-> 24,
    override_scale_micrometers |-> 10, override_scale_pixels |-> 100]}

\* What tesseract prints.
Texts ==
  {<< "1", "0", "u", "m", "\n" >>, << "2", " ", "u", "m" >>,
   << "1", "0", "\n" >>, << "u", "m" >>, << >>}

(* ---------------------------------------------------------------------- *)
(* State                                                                   *)
(* ---------------------------------------------------------------------- *)
VARIABLES
  pc,                      \* where the run stands
  input_image,             \* the image passed in
  config,                  \* the BacteriaExclusion configuration
  scale,                   \* physical units per pixel
  edges,                   \* thresholded contrast mask
  edge_sharpness,          \* contrast image
  contours,                \* find_contours of the mask being filtered
  kept,                    \* the contours retain() keeps
  filtered_edges,          \* denoised mask
  bacteria_exclusion_zone, \* exclusion mask
  non_zero_count,          \* its number of on pixels
  hull,                    \* convex hull of the raw image's contour points
  overflow_checks,         \* the build's overflow-checks setting
  radius_loop,             \* outcome of the bucket loop
  result,                  \* what bacteria_exclusion returned
  refiltered,              \* the filter applied to its own output
  raised_area,             \* a second, higher minimum area
  kept_raised              \* the contours retain() keeps at raised_area

\* The bucket loop run a second time, on a mask changed at some pixels.
VARIABLES
  margin_zone,             \* the changed exclusion mask
  margin_loop,             \* outcome of the bucket loop on it
  margin_ratio             \* the ratio it leads to

marginVars == << margin_zone, margin_loop, margin_ratio >>

\* A call of graphene_angles.
VARIABLES
  angle_pc,                \* position in graphene_angles
  mask,                    \* the blurred and thresholded image
  angle_config,            \* min_graphene_size and min_graphene_ratio, tenths
  angle_scale,             \* scale, in tenths
  angle_overflow_checks,   \* the build checks integer overflow
  graphene_contours,       \* contours::find_contours(&mask)
  contour_index,           \* the contour the for loop is at
  passes,                  \* how each pass of the loop body ended
  points_and_angles,       \* centre and angle of every flake pushed
  lengths,                 \* length of every flake pushed, squared
  angles,                  \* the Vec<f32> returned
  reversed_index,          \* a contour taken up again, points reversed
  reversed_pass            \* how the loop body ends on it

angleVars == << angle_pc, mask, angle_config, angle_scale,
                angle_overflow_checks, graphene_contours, contour_index,
                passes, points_and_angles, lengths, angles, reversed_index,
                reversed_pass >>

\* A run of batch over the files of a directory.
VARIABLES
  batch_pc,                \* position in batch
  directory,               \* the files fs::read_dir lists
  discard_error,           \* the --discard-error flag
  batch_config,            \* which analyses are enabled, radius_adjusted
  batch_overflow_checks,   \* the build checks integer overflow
  targets,                 \* the sorted .tif and .tiff paths
  worker_pc,               \* per target: position in the closure
  return_status,           \* per target: what the closure returned
  writes,                  \* << path, target >>: output files written
  bacteria_exclusion_ratios \* the collected Vec<f32>

batchVars == << batch_pc, directory, discard_error, batch_config,
                batch_overflow_checks, targets, worker_pc, return_status,
                writes, bacteria_exclusion_ratios >>

\* A call of determine_scale.
VARIABLES
  scale_pc,                \* position in determine_scale
  scale_image,             \* the image's height and its footer's blocks
  text_config,             \* config: &TextRecognition
  scale_debug,             \* the debug flag
  scale_overflow_checks,   \* the build checks integer overflow
  scale_bar_height,        \* the row the footer starts at
  footer_contours,         \* contours::find_contours(&image)
  found_lines,             \* minimum_line, maximum_line, the lines accepted
  scale_writes,            \* the files saved under output_prefix
  scale_status             \* what determine_scale returned

scaleVars == << scale_pc, scale_image, text_config, scale_debug,
                scale_overflow_checks, scale_bar_height, footer_contours,
                found_lines, scale_writes, scale_status >>

auxVars == << marginVars, angleVars, batchVars, scaleVars >>

pipelineVars == << pc, input_image, config, scale, edges, edge_sharpness,
                   contours, kept, filtered_edges, bacteria_exclusion_zone,
                   non_zero_count, hull, overflow_checks, radius_loop, result,
                   refiltered, raised_area, kept_raised >>

vars == << pipelineVars, auxVars >>

NoLoop == [panicked |-> FALSE, buckets |-> EmptyBuckets, included |-> {},
           accumulated |-> {}]
NoResult == [kind |-> "none", ratio |-> << 0, 1 >>]

MarginUntouched ==
  /\ margin_zone = Blank
  /\ margin_loop = NoLoop
  /\ margin_ratio = NoResult.ratio

NoPass == [outcome |-> "none"]

\* What graphene_angles computes, before it has.
AngleResultsUntouched ==
  /\ graphene_contours = << >>
  /\ contour_index = 0
  /\ passes = << >>
  /\ points_and_angles = << >>
  /\ lengths = << >>
  /\ angles = << >>
  /\ reversed_index = 0
  /\ reversed_pass = NoPass

\* No call of graphene_angles.
AngleUntouched ==
  /\ angle_pc = "idle"
  /\ mask = Blank
  /\ angle_config = [min_graphene_size10 |-> DefaultMinGrapheneSize10,
                     min_graphene_ratio10 |-> DefaultMinGrapheneRatio10]
  /\ angle_scale = 10
  /\ angle_overflow_checks = FALSE
  /\ AngleResultsUntouched

\* What batch computes, before it has.
BatchResultsUntouched ==
  /\ targets = << >>
  /\ worker_pc = << >>
  /\ return_status = << >>
  /\ writes = {}
  /\ bacteria_exclusion_ratios = << >>

\* No run of batch.
BatchUntouched ==
  /\ batch_pc = "idle"
  /\ directory = {}
  /\ discard_error = FALSE
  /\ batch_config = DefaultBatchConfig
  /\ batch_overflow_checks = FALSE
  /\ BatchResultsUntouched

\* What determine_scale computes, before it has.
NoStatus == [kind |-> "none"]
ScaleResultsUntouched ==
  /\ scale_bar_height = 0
  /\ footer_contours = << >>
  /\ found_lines = NoLines
  /\ scale_writes = {}
  /\ scale_status = NoStatus

\* No call of determine_scale.
ScaleUntouched ==
  /\ scale_pc = "idle"
  /\ scale_image = [height |-> 64, footer |-> << >>]
  /\ text_config = DefaultTextRecognition
  /\ scale_debug = FALSE
  /\ scale_overflow_checks = FALSE
  /\ ScaleResultsUntouched

AuxUntouched ==
  MarginUntouched /\ AngleUntouched /\ BatchUntouched /\ ScaleUntouched

\* What bacteria_exclusion computes, before it has.
PipelineUntouched ==
  /\ edge_sharpness = Blank
  /\ contours = << >>
  /\ kept = << >>
  /\ filtered_edges = Blank
  /\ bacteria_exclusion_zone = Blank
  /\ non_zero_count = 0
  /\ hull = << >>
  /\ overflow_checks = FALSE
  /\ radius_loop = NoLoop
  /\ result = NoResult
  /\ refiltered = Blank
  /\ raised_area = 0
  /\ kept_raised = << >>

\* Everything a run has not computed yet.
Untouched == AuxUntouched /\ PipelineUntouched

\* A call of bacteria_exclusion.
Init ==
  /\ pc = "start"
  /\ input_image \in PipelineImages
  /\ \E area \in {0, 5}, adjusted \in BOOLEAN, r \in RadiusInputs :
       /\ config = [contrast_threshold8 |-> DefaultContrastThreshold8,
                    minimum_edge_area |-> area,
                    exclusion_radius |-> r[1],
                    radius_adjusted |-> adjusted]
       /\ scale = r[2]
  /\ edges = Blank
  /\ Untouched

\* A call of absolute_contrast_threshold.
InitContrast ==
  /\ pc = "start"
  /\ input_image \in ContrastImages
  /\ \E t \in ContrastThresholds8 :
       config = [contrast_threshold8 |-> t, minimum_edge_area |-> 0,
                 exclusion_radius |-> 1, radius_adjusted |-> FALSE]
  /\ scale = 1
  /\ edges = Blank
  /\ Untouched

\* A call of filter_by_minimum_area.
InitFilter ==
  /\ pc = "edges"
  /\ input_image = Blank
  /\ edges \in FilterMasks
  /\ \E area \in MinimumAreas :
       config = [contrast_threshold8 |-> 0, minimum_edge_area |-> area,
                 exclusion_radius |-> 1, radius_adjusted |-> FALSE]
  /\ scale = 1
  /\ Untouched

\* A call of graphene_angles on a mask, in a build with or without
\* overflow checks.
InitAngles ==
  /\ pc = "idle"
  /\ input_image = Blank
  /\ edges = Blank
  /\ config = [contrast_threshold8 |-> DefaultContrastThreshold8,
               minimum_edge_area |-> 0, exclusion_radius |-> 1,
               radius_adjusted |-> FALSE]
  /\ scale = 1
  /\ PipelineUntouched
  /\ MarginUntouched
  /\ BatchUntouched
  /\ ScaleUntouched
  /\ angle_pc = "start"
  /\ mask \in GrapheneMasks
  /\ \E size \in MinGrapheneSizes10, ratio \in MinGrapheneRatios10 :
       angle_config = [min_graphene_size10 |-> size,
                       min_graphene_ratio10 |-> ratio]
  /\ angle_scale = 10
  /\ angle_overflow_checks \in BOOLEAN
  /\ AngleResultsUntouched

\* A run of batch on a directory.
InitBatch ==
  /\ pc = "idle"
  /\ input_image = Blank
  /\ edges = Blank
  /\ config = [contrast_threshold8 |-> DefaultContrastThreshold8,
               minimum_edge_area |-> 0, exclusion_radius |-> 1,
               radius_adjusted |-> FALSE]
  /\ scale = 1
  /\ PipelineUntouched
  /\ MarginUntouched
  /\ AngleUntouched
  /\ ScaleUntouched
  /\ batch_pc = "listing"
  /\ directory \in Directories
  /\ discard_error \in BOOLEAN
  /\ batch_config \in BatchConfigs
  /\ batch_overflow_checks \in BOOLEAN
  /\ BatchResultsUntouched

\* A call of determine_scale on an image with a footer, in a build with or
\* without overflow checks.
InitScale ==
  /\ pc = "idle"
  /\ input_image = Blank
  /\ edges = Blank
  /\ config = [contrast_threshold8 |-> DefaultContrastThreshold8,
               minimum_edge_area |-> 0, exclusion_radius |-> 1,
               radius_adjusted |-> FALSE]
  /\ scale = 1
  /\ PipelineUntouched
  /\ MarginUntouched
  /\ AngleUntouched
  /\ BatchUntouched
  /\ scale_pc = "start"
  /\ \E height \in ScaleImageHeights, footer \in Footers :
       scale_image = [height |-> height, footer |-> footer]
  /\ text_config \in TextRecognitionConfigs
  /\ scale_debug \in BOOLEAN
  /\ scale_overflow_checks \in BOOLEAN
  /\ ScaleResultsUntouched

(* ---------------------------------------------------------------------- *)
(* Steps                                                                   *)
(* ---------------------------------------------------------------------- *)
\* let (edges, edge_sharpness) = absolute_contrast_threshold(..)
AbsoluteContrast ==
  /\ pc = "start"
  /\ LET r == absolute_contrast_threshold(input_image,
                                          config.contrast_threshold8)
     IN  edges' = r[1] /\ edge_sharpness' = r[2]
  /\ pc' = "edges"
  /\ UNCHANGED auxVars
  /\ UNCHANGED << input_image, config, scale, contours, kept, filtered_edges,
                  bacteria_exclusion_zone, non_zero_count, hull,
                  overflow_checks, radius_loop, result, refiltered,
                  raised_area, kept_raised >>

\* let filtered_edges = filter_by_minimum_area(&edges, ..)
FilterEdges ==
  /\ pc = "edges"
  /\ contours' = find_contours(edges)
  /\ kept' = RetainContours(contours', config.minimum_edge_area)
  /\ IF \E i \in DOMAIN kept' : DrawPolygonPanics(kept'[i].points)
       THEN pc' = "panicked" /\ UNCHANGED filtered_edges
       ELSE pc' = "filtered" /\ filtered_edges' = DrawContours(Blank, kept', 1)
  /\ UNCHANGED auxVars
  /\ UNCHANGED << input_image, config, scale, edges, edge_sharpness,
                  bacteria_exclusion_zone, non_zero_count, hull,
                  overflow_checks, radius_loop, result, refiltered,
                  raised_area, kept_raised >>

\* if bacteria_exclusion_radius < 1.0 { return Err(..) }
CheckRadius ==
  /\ pc = "filtered"
  /\ IF RadiusTooSmall(config.exclusion_radius, scale)
       THEN /\ pc' = "returned"
            /\ result' = [kind |-> "ToSmallExclusionDiameter",
                          ratio |-> << 0, 1 >>]
       ELSE pc' = "radius_ok" /\ UNCHANGED result
  /\ UNCHANGED auxVars
  /\ UNCHANGED << input_image, config, scale, edges, edge_sharpness, contours,
                  kept, filtered_edges, bacteria_exclusion_zone,
                  non_zero_count, hull, overflow_checks, radius_loop,
                  refiltered, raised_area, kept_raised >>

\* The distance transform and the loop that fills the exclusion zone.
BuildExclusionZone ==
  /\ pc = "radius_ok"
  /\ bacteria_exclusion_zone' =
       ExclusionZone(euclidean_squared_distance_transform(filtered_edges),
                     config.exclusion_radius, scale)
  /\ non_zero_count' = NonZeroCount(bacteria_exclusion_zone')
  /\ pc' = "zone"
  /\ UNCHANGED auxVars
  /\ UNCHANGED << input_image, config, scale, edges, edge_sharpness, contours,
                  kept, filtered_edges, hull, overflow_checks, radius_loop,
                  result, refiltered, raised_area, kept_raised >>

\* radius_adjusted is off: Ok(non_zero_count / (width * height))
ReturnRatio ==
  /\ pc = "zone"
  /\ ~config.radius_adjusted
  /\ result' = [kind |-> "Ok", ratio |-> Frac(non_zero_count, Width * Height)]
  /\ pc' = "returned"
  /\ UNCHANGED auxVars
  /\ UNCHANGED << input_image, config, scale, edges, edge_sharpness, contours,
                  kept, filtered_edges, bacteria_exclusion_zone,
                  non_zero_count, hull, overflow_checks, radius_loop,
                  refiltered, raised_area, kept_raised >>

\* radius_adjusted is on: the hull of the raw image's contours.
ComputeHull ==
  /\ pc = "zone"
  /\ config.radius_adjusted
  /\ hull' = convex_hull(
               FlatPoints(find_contours_with_threshold(input_image, 1), 1))
  /\ pc' = "hull"
  /\ UNCHANGED auxVars
  /\ UNCHANGED << input_image, config, scale, edges, edge_sharpness, contours,
                  kept, filtered_edges, bacteria_exclusion_zone,
                  non_zero_count, overflow_checks, radius_loop, result,
                  refiltered, raised_area, kept_raised >>

\* The 'outer loop over the exclusion zone, under either build.
AccumulateBuckets ==
  /\ pc = "hull"
  /\ \E checks \in BOOLEAN :
       /\ overflow_checks' = checks
       /\ radius_loop' = RadiusLoop(bacteria_exclusion_zone, hull, checks, 0,
                                    EmptyBuckets, {}, {})
  /\ pc' = IF radius_loop'.panicked THEN "panicked" ELSE "buckets"
  /\ UNCHANGED auxVars
  /\ UNCHANGED << input_image, config, scale, edges, edge_sharpness, contours,
                  kept, filtered_edges, bacteria_exclusion_zone,
                  non_zero_count, hull, result, refiltered, raised_area,
                  kept_raised >>

\* The averaging and summing loops, and Ok(bacteria_exclusion_ratio).
ReturnAdjustedRatio ==
  /\ pc = "buckets"
  /\ result' = [kind |-> "Ok", ratio |-> AdjustedRatio(radius_loop.buckets)]
  /\ pc' = "returned"
  /\ UNCHANGED auxVars
  /\ UNCHANGED << input_image, config, scale, edges, edge_sharpness, contours,
                  kept, filtered_edges, bacteria_exclusion_zone,
                  non_zero_count, hull, overflow_checks, radius_loop,
                  refiltered, raised_area, kept_raised >>

\* The pixels hull lets through, as the inner loop decides it.
PassingPixels(hull_) ==
  {p \in Pixels : hull_ # << >> /\ WithinHull(hull_, 1, hull_[Len(hull_)], p)}

\* Masks that differ from zone at one pixel of the centre row, or at every
\* pixel the hull does not let through.
ChangedZones(zone, hull_) ==
  {[zone EXCEPT ![<< x, Height \div 2 >>] = 255 - @] : x \in 0 .. Width - 1}
    \cup {[p \in Pixels |->
             IF p \in PassingPixels(hull_) THEN zone[p] ELSE 255 - zone[p]]}

\* The 'outer loop and the loops after it, on the same image and hull with a
\* changed exclusion mask, in the same build.
AccumulateChangedZone ==
  /\ pc \in {"buckets", "panicked"}
  /\ margin_zone' \in ChangedZones(bacteria_exclusion_zone, hull)
  /\ margin_loop' = RadiusLoop(margin_zone', hull, overflow_checks, 0,
                               EmptyBuckets, {}, {})
  /\ margin_ratio' = AdjustedRatio(margin_loop'.buckets)
  /\ pc' = "changed_zone"
  /\ UNCHANGED << angleVars, batchVars, scaleVars >>
  /\ UNCHANGED << input_image, config, scale, edges, edge_sharpness, contours,
                  kept, filtered_edges, bacteria_exclusion_zone,
                  non_zero_count, hull, overflow_checks, radius_loop, result,
                  refiltered, raised_area, kept_raised >>

\* filter_by_minimum_area run on its own output, same minimum area.
FilterAgain ==
  /\ pc = "filtered"
  /\ refiltered' =
       filter_by_minimum_area(filtered_edges, config.minimum_edge_area)
  /\ pc' = "refiltered"
  /\ UNCHANGED auxVars
  /\ UNCHANGED << input_image, config, scale, edges, edge_sharpness, contours,
                  kept, filtered_edges, bacteria_exclusion_zone,
                  non_zero_count, hull, overflow_checks, radius_loop, result,
                  raised_area, kept_raised >>

\* The retain step run on the same mask with a minimum area no lower.
FilterRaised ==
  /\ pc = "filtered"
  /\ \E area \in MinimumAreas :
       /\ config.minimum_edge_area <= area
       /\ raised_area' = area
       /\ kept_raised' = RetainedContours(edges, area)
  /\ pc' = "raised"
  /\ UNCHANGED auxVars
  /\ UNCHANGED << input_image, config, scale, edges, edge_sharpness, contours,
                  kept, filtered_edges, bacteria_exclusion_zone,
                  non_zero_count, hull, overflow_checks, radius_loop, result,
                  refiltered >>

\* let contours = contours::find_contours(&mask)
FindGrapheneContours ==
  /\ angle_pc = "start"
  /\ graphene_contours' = find_contours(mask)
  /\ contour_index' = 1
  /\ angle_pc' = "loop"
  /\ UNCHANGED << mask, angle_config, angle_scale, angle_overflow_checks,
                  passes, points_and_angles, lengths, angles, reversed_index,
                  reversed_pass >>
  /\ UNCHANGED << pipelineVars, marginVars, batchVars, scaleVars >>

\* One pass of `for contour in contours`.
AnalyzeNextContour ==
  /\ angle_pc = "loop"
  /\ contour_index <= Len(graphene_contours)
  /\ LET pass == AnalyzeContour(graphene_contours[contour_index],
                                angle_config, angle_scale,
                                angle_overflow_checks)
     IN  /\ passes' = Append(passes, pass)
         /\ angle_pc' = IF pass.outcome = "panicked" THEN "panicked"
                        ELSE "loop"
         /\ contour_index' = IF pass.outcome = "panicked" THEN contour_index
                             ELSE contour_index + 1
         /\ points_and_angles' =
              IF pass.outcome = "emitted"
                THEN Append(points_and_angles,
                            [center2 |-> pass.center2, angle |-> pass.angle])
                ELSE points_and_angles
         /\ lengths' = IF pass.outcome = "emitted"
                         THEN Append(lengths, pass.length_squared100)
                         ELSE lengths
  /\ UNCHANGED << mask, angle_config, angle_scale, angle_overflow_checks,
                  graphene_contours, angles, reversed_index, reversed_pass >>
  /\ UNCHANGED << pipelineVars, marginVars, batchVars, scaleVars >>

\* points_and_angles.iter().map(|(_, angle)| *angle).collect()
ReturnAngles ==
  /\ angle_pc = "loop"
  /\ contour_index > Len(graphene_contours)
  /\ angles' = [i \in 1 .. Len(points_and_angles) |->
                  points_and_angles[i].angle]
  /\ angle_pc' = "returned"
  /\ UNCHANGED << mask, angle_config, angle_scale, angle_overflow_checks,
                  graphene_contours, contour_index, passes, points_and_angles,
                  lengths, reversed_index, reversed_pass >>
  /\ UNCHANGED << pipelineVars, marginVars, batchVars, scaleVars >>

\* The loop body once more, on one of the contours with its points in the
\* opposite order.
AnalyzeReversedContour ==
  /\ angle_pc \in {"returned", "panicked"}
  /\ \E i \in 1 .. Len(passes) :
       /\ passes[i].outcome # "hole"
       /\ reversed_index' = i
       /\ reversed_pass' = AnalyzeContour(Reversed(graphene_contours[i]),
                                          angle_config, angle_scale,
                                          angle_overflow_checks)
  /\ angle_pc' = "reversed"
  /\ UNCHANGED << mask, angle_config, angle_scale, angle_overflow_checks,
                  graphene_contours, contour_index, passes, points_and_angles,
                  lengths, angles >>
  /\ UNCHANGED << pipelineVars, marginVars, batchVars, scaleVars >>

(* batch *)
\* "./output/" + target.file_stem() + "_"
OutputPrefix(target) == "./output/" \o target.stem \o "_"

\* The output files a stage writes for a target, under its prefix.
Written(i, names) == {<< OutputPrefix(targets[i]) \o name, i >> : name \in names}

\* The read_dir loop and targets.sort_unstable().
ListTargets ==
  /\ batch_pc = "listing"
  /\ targets' = SelectSeq(SortedPaths,
                          LAMBDA path : /\ path \in directory
                                        /\ path.extension \in {"tif", "tiff"})
  /\ worker_pc' = [i \in 1 .. Len(targets') |-> "pending"]
  /\ return_status' = [i \in 1 .. Len(targets') |-> << "unset" >>]
  /\ batch_pc' = "running"
  /\ UNCHANGED << directory, discard_error, batch_config,
                  batch_overflow_checks, writes, bacteria_exclusion_ratios >>
  /\ UNCHANGED << pipelineVars, marginVars, angleVars, scaleVars >>

\* A worker opens its target and determines the scale: open panics on a
\* file it cannot read; determine_scale returns Ok, or an error after it
\* has saved heights.png and lines.png. On an error the closure returns
\* None ("discarded") if discard_error is set and panics with the message
\* ("error_panic") if not.
DetermineScale ==
  /\ batch_pc = "running"
  /\ \E i \in 1 .. Len(targets) :
       /\ worker_pc[i] = "pending"
       /\ \E outcome \in {"Ok", "Err", "Unreadable"} :
            /\ worker_pc' =
                 [worker_pc EXCEPT ![i] =
                    IF outcome = "Unreadable" THEN "panicked"
                    ELSE IF outcome = "Ok" THEN "scaled"
                    ELSE IF discard_error THEN "discarded"
                    ELSE "error_panic"]
            /\ return_status' =
                 [return_status EXCEPT ![i] =
                    IF outcome = "Err" /\ discard_error THEN << "None" >>
                    ELSE @]
            /\ writes' =
                 writes \cup
                   (IF outcome = "Unreadable" THEN {}
                    ELSE IF outcome = "Err"
                      THEN Written(i, {"heights.png", "lines.png"})
                    ELSE Written(i, {"heights.png", "lines.png",
                                     "scale.png"}))
  /\ UNCHANGED << batch_pc, directory, discard_error, batch_config,
                  batch_overflow_checks, targets, bacteria_exclusion_ratios >>
  /\ UNCHANGED << pipelineVars, marginVars, angleVars, scaleVars >>

\* A worker runs graphene_angles if enabled; the call returns, or panics
\* in a build with overflow checks.
BatchGrapheneAngles ==
  /\ batch_pc = "running"
  /\ \E i \in 1 .. Len(targets) :
       /\ worker_pc[i] = "scaled"
       /\ \E panics \in {FALSE, batch_config.graphene_angles_enabled
                                   /\ batch_overflow_checks} :
            /\ worker_pc' = [worker_pc EXCEPT ![i] =
                               IF panics THEN "panicked" ELSE "angled"]
            /\ writes' =
                 writes \cup
                   (IF batch_config.graphene_angles_enabled /\ ~panics
                      THEN Written(i, {"angles.png", "angle-histogram.png",
                                       "length-histogram.png",
                                       "angle-length-scatterplot.png",
                                       "angles.csv", "lengths.csv"})
                      ELSE {})
  /\ UNCHANGED << batch_pc, directory, discard_error, batch_config,
                  batch_overflow_checks, targets, return_status,
                  bacteria_exclusion_ratios >>
  /\ UNCHANGED << pipelineVars, marginVars, angleVars, scaleVars >>

\* A worker runs bacteria_exclusion if enabled: Ok(ratio), the error of a
\* radius below one pixel, returned after edge_sharpness.png and
\* graphene.png are saved, or, with radius_adjusted, a panic.
BatchBacteriaExclusion ==
  /\ batch_pc = "running"
  /\ \E i \in 1 .. Len(targets) :
       /\ worker_pc[i] = "angled"
       /\ IF ~batch_config.bacteria_exclusion_enabled
            THEN /\ worker_pc' = [worker_pc EXCEPT ![i] = "excluded"]
                 /\ return_status' = [return_status EXCEPT ![i] = << "None" >>]
                 /\ writes' = writes
            ELSE \E outcome \in {"Ok", "Err"} \cup
                                  (IF batch_config.radius_adjusted
                                     THEN {"Panic"} ELSE {}) :
                   /\ worker_pc' =
                        [worker_pc EXCEPT ![i] =
                           IF outcome = "Ok" THEN "excluded"
                           ELSE IF outcome = "Err"
                             THEN IF discard_error THEN "discarded"
                                  ELSE "error_panic"
                           ELSE "panicked"]
                   /\ \E ratio \in RatioValues :
                        return_status' =
                          [return_status EXCEPT ![i] =
                             IF outcome = "Ok" THEN << "Some", ratio >>
                             ELSE IF outcome = "Err" /\ discard_error
                               THEN << "None" >>
                             ELSE @]
                   /\ writes' =
                        writes \cup
                          Written(i, {"edge_sharpness.png", "graphene.png"}
                                       \cup (IF outcome = "Ok"
                                               THEN {"bacteria-exclusion.png"}
                                               ELSE {})
                                       \cup (IF outcome = "Ok"
                                                 /\ batch_config.radius_adjusted
                                               THEN {"radius_hull.png",
                                                     "graphene_by_radius.csv"}
                                               ELSE {}))
  /\ UNCHANGED << batch_pc, directory, discard_error, batch_config,
                  batch_overflow_checks, targets, bacteria_exclusion_ratios >>
  /\ UNCHANGED << pipelineVars, marginVars, angleVars, scaleVars >>

\* A worker writes config.toml and returns return_status.
WriteConfig ==
  /\ batch_pc = "running"
  /\ \E i \in 1 .. Len(targets) :
       /\ worker_pc[i] = "excluded"
       /\ worker_pc' = [worker_pc EXCEPT ![i] = "returned"]
       /\ writes' = writes \cup Written(i, {"config.toml"})
  /\ UNCHANGED << batch_pc, directory, discard_error, batch_config,
                  batch_overflow_checks, targets, return_status,
                  bacteria_exclusion_ratios >>
  /\ UNCHANGED << pipelineVars, marginVars, angleVars, scaleVars >>

\* The values filter_map keeps, in the order of the targets.
RECURSIVE FilterMap(_, _)
FilterMap(status, i) ==
  IF i > Len(status) THEN << >>
  ELSE IF status[i][1] = "Some"
    THEN << status[i][2] >> \o FilterMap(status, i + 1)
  ELSE FilterMap(status, i + 1)

\* Every closure has returned: collect().
Collect ==
  /\ batch_pc = "running"
  /\ \A i \in 1 .. Len(targets) : worker_pc[i] \in {"returned", "discarded"}
  /\ bacteria_exclusion_ratios' = FilterMap(return_status, 1)
  /\ batch_pc' = "collected"
  /\ UNCHANGED << directory, discard_error, batch_config,
                  batch_overflow_checks, targets, worker_pc, return_status,
                  writes >>
  /\ UNCHANGED << pipelineVars, marginVars, angleVars, scaleVars >>

\* A closure has panicked: the panic is propagated out of the parallel
\* iterator and batch ends without collecting, whatever the other workers
\* have done by then.
AbortBatch ==
  /\ batch_pc = "running"
  /\ \E i \in 1 .. Len(targets) : worker_pc[i] \in {"panicked", "error_panic"}
  /\ batch_pc' = "aborted"
  /\ UNCHANGED << directory, discard_error, batch_config,
                  batch_overflow_checks, targets, worker_pc, return_status,
                  writes, bacteria_exclusion_ratios >>
  /\ UNCHANGED << pipelineVars, marginVars, angleVars, scaleVars >>

\* let scale_bar_height = if config.override_scale { .. } else { .. }: the
\* configured height from the bottom, or the mode of the rows where the
\* brightness steps up; heights.png is saved in the second case if debug.
DetermineBarHeight ==
  /\ scale_pc = "start"
  /\ IF text_config.override_scale
       THEN /\ scale_bar_height' =
                 scale_image.height - text_config.scale_bar_height
            /\ scale_writes' = scale_writes
       ELSE /\ scale_bar_height' \in DetectedBarHeights
            /\ scale_writes' =
                 IF scale_debug THEN scale_writes \cup {"heights.png"}
                 ELSE scale_writes
  /\ scale_pc' = "bar"
  /\ UNCHANGED << scale_image, text_config, scale_debug,
                  scale_overflow_checks, footer_contours, found_lines,
                  scale_status >>
  /\ UNCHANGED << pipelineVars, marginVars, angleVars, batchVars >>

\* if config.override_scale { return Ok((..)) }
ReturnOverride ==
  /\ scale_pc = "bar"
  /\ text_config.override_scale
  /\ scale_status' = [kind |-> "Ok",
                      micrometers |-> text_config.override_scale_micrometers,
                      pixels |-> text_config.override_scale_pixels,
                      footer_height |-> text_config.scale_bar_height]
  /\ scale_pc' = "returned"
  /\ UNCHANGED << scale_image, text_config, scale_debug,
                  scale_overflow_checks, scale_bar_height, footer_contours,
                  found_lines, scale_writes >>
  /\ UNCHANGED << pipelineVars, marginVars, angleVars, batchVars >>

\* The footer is cropped and thresholded, its contours are found and the
\* loop over them looks for the extreme lines; lines.png is saved if debug.
FindLines ==
  /\ scale_pc = "bar"
  /\ ~text_config.override_scale
  /\ footer_contours' = [i \in 1 .. Len(scale_image.footer) |->
                           RectangleBorder(scale_image.footer[i])]
  /\ found_lines' = FindExtremeLines(footer_contours', 1, NoLines)
  /\ scale_writes' =
       IF scale_debug THEN scale_writes \cup {"lines.png"} ELSE scale_writes
  /\ scale_pc' = "lines"
  /\ UNCHANGED << scale_image, text_config, scale_debug,
                  scale_overflow_checks, scale_bar_height, scale_status >>
  /\ UNCHANGED << pipelineVars, marginVars, angleVars, batchVars >>

\* The two tests on the extreme lines, each with its early return.
ValidateLines ==
  /\ scale_pc = "lines"
  /\ IF LinesMissing(found_lines.minimum_line, found_lines.maximum_line)
       THEN /\ scale_status' =
                 [kind |-> "Err", error |-> "LessThenTwoApplicableLinesFound"]
            /\ scale_pc' = "returned"
     ELSE IF NonHorizontal(found_lines.minimum_line, found_lines.maximum_line)
       THEN /\ scale_status' =
                 [kind |-> "Err", error |-> "ExtremeLineIsNonHorizontal"]
            /\ scale_pc' = "returned"
     ELSE /\ scale_status' = scale_status
          /\ scale_pc' = "validated"
  /\ UNCHANGED << scale_image, text_config, scale_debug,
                  scale_overflow_checks, scale_bar_height, footer_contours,
                  found_lines, scale_writes >>
  /\ UNCHANGED << pipelineVars, marginVars, angleVars, batchVars >>

\* let pixel_distance = ..; the crop round the text, thresholded and
\* blurred, is saved as scale.png. Arguments of the crop that leave the
\* u32 range panic in a build with overflow checks and wrap in one without,
\* where imageops::crop then clamps them to the image.
CropText ==
  /\ scale_pc = "validated"
  /\ IF /\ scale_overflow_checks
        /\ TextCropUnderflows(found_lines.minimum_line,
                              found_lines.maximum_line, scale_bar_height)
       THEN /\ scale_pc' = "panicked"
            /\ scale_writes' = scale_writes
       ELSE /\ scale_pc' = "cropped"
            /\ scale_writes' = scale_writes \cup {"scale.png"}
  /\ UNCHANGED << scale_image, text_config, scale_debug,
                  scale_overflow_checks, scale_bar_height, footer_contours,
                  found_lines, scale_status >>
  /\ UNCHANGED << pipelineVars, marginVars, angleVars, batchVars >>

\* tesseract is run on scale.png and its output is parsed: the call panics
\* if tesseract cannot be run, and returns FailedToDetectText or the scale.
RecognizeText ==
  /\ scale_pc = "cropped"
  /\ \/ /\ scale_pc' = "panicked"
        /\ scale_status' = scale_status
     \/ \E text \in Texts :
          LET micrometer_distance == MicrometerDistance(text)
              pixel_distance ==
                U32ToInt(found_lines.maximum_line[1])
                  - U32ToInt(found_lines.minimum_line[1])
          IN  /\ scale_status' =
                   IF micrometer_distance = -1
                     THEN [kind |-> "Err", error |-> "FailedToDetectText",
                           detected |-> text]
                     ELSE [kind |-> "Ok",
                           micrometers |-> micrometer_distance,
                           pixels |-> pixel_distance,
                           footer_height |->
                             scale_image.height - scale_bar_height]
              /\ scale_pc' = "returned"
  /\ UNCHANGED << scale_image, text_config, scale_debug,
                  scale_overflow_checks, scale_bar_height, footer_contours,
                  found_lines, scale_writes >>
  /\ UNCHANGED << pipelineVars, marginVars, angleVars, batchVars >>

Next ==
  \/ AbsoluteContrast
  \/ FilterEdges
  \/ CheckRadius
  \/ BuildExclusionZone
  \/ ReturnRatio
  \/ ComputeHull
  \/ AccumulateBuckets
  \/ ReturnAdjustedRatio
  \/ AccumulateChangedZone

NextContrast == AbsoluteContrast

NextFilter == FilterEdges \/ FilterAgain \/ FilterRaised

NextBatch ==
  \/ ListTargets
  \/ DetermineScale
  \/ BatchGrapheneAngles
  \/ BatchBacteriaExclusion
  \/ WriteConfig
  \/ Collect
  \/ AbortBatch

NextAngles ==
  \/ FindGrapheneContours
  \/ AnalyzeNextContour
  \/ ReturnAngles
  \/ AnalyzeReversedContour

NextScale ==
  \/ DetermineBarHeight
  \/ ReturnOverride
  \/ FindLines
  \/ ValidateLines
  \/ CropText
  \/ RecognizeText

Spec == Init /\ [][Next]_vars
SpecContrast == InitContrast /\ [][NextContrast]_vars
SpecFilter == InitFilter /\ [][NextFilter]_vars
SpecAngles == InitAngles /\ [][NextAngles]_vars
SpecBatch == InitBatch /\ [][NextBatch]_vars
SpecScale == InitScale /\ [][NextScale]_vars

(* ---------------------------------------------------------------------- *)
(* Properties of bacteria_exclusion (under Spec)                           *)
(* ---------------------------------------------------------------------- *)
\* The run is past `if bacteria_exclusion_radius < 1.0`.
PastRadiusCheck ==
  \/ pc \in {"returned", "radius_ok", "zone", "hull", "buckets"}
  \/ pc = "panicked" /\ radius_loop.panicked

\* Pixel p lies within the pixel radius exclusion_radius / scale of an on
\* pixel of the filtered edge mask: squared distance < squared radius.
WithinPixelRadius(p) ==
  \E q \in Pixels :
    /\ filtered_edges[q] # 0
    /\ SquaredDistance(p, q) * scale * scale
         < config.exclusion_radius * config.exclusion_radius

\* C1: once the exclusion mask is built, a pixel is on (255) if and only if
\* its squared distance to the nearest on pixel of the filtered edge mask is
\* less than the square of the pixel radius exclusion_radius / scale.
C1_ZoneIsWithinSquaredRadius ==
  pc = "zone" =>
    \A p \in Pixels : (bacteria_exclusion_zone[p] = 255) <=> WithinPixelRadius(p)

C3_NeverHalts ==
  scale <= config.exclusion_radius =>
    /\ pc # "panicked"
    /\ pc = "returned" => result.kind = "Ok"

(* ---------------------------------------------------------------------- *)
(* Properties of filter_by_minimum_area (under SpecFilter)                 *)
(* ---------------------------------------------------------------------- *)
\* Twice the signed shoelace area of the closed point sequence, the last
\* point wrapping to the first: the sum of the cross products of
\* consecutive points.
RECURSIVE CrossSum(_, _)
CrossSum(points, i) ==
  IF i > Len(points) THEN 0
  ELSE LET a == points[i]
           b == points[(i % Len(points)) + 1]
       IN  a[1] * b[2] - b[1] * a[2] + CrossSum(points, i + 1)
TwiceShoelaceArea(points) == Abs(CrossSum(points, 1))

\* round(|shoelace area|), a half rounding up.
RoundedShoelaceArea(points) ==
  LET twice == TwiceShoelaceArea(points)
  IN  IF twice % 2 = 0 THEN twice \div 2 ELSE (twice + 1) \div 2

\* The filter has run on the mask in edges.
Filtered == pc \in {"filtered", "refiltered", "raised"}

\* What rasterizing contour c alone draws.
Rasterized(c) == DrawPolygon(Blank, c.points, 255)

\* C4: a traced contour is retained if and only if the rounded absolute
\* shoelace area of its closed point sequence is strictly greater than
\* minimum_area, the retained contours keep their order, and the output
\* mask is exactly what rasterizing the retained contours draws.
C4_RetainedIffRoundedAreaAbove ==
  Filtered =>
    /\ kept = SelectSeq(contours,
                LAMBDA c : RoundedShoelaceArea(c.points)
                             > config.minimum_edge_area)
    /\ LET drawn == [i \in DOMAIN kept |-> Rasterized(kept[i])]
       IN  \A p \in Pixels :
             filtered_edges[p] =
               IF \E i \in DOMAIN kept : drawn[i][p] = 255 THEN 255 ELSE 0

\* C4's case: one contour is retained only because its area of
\* minimum_area + 1/2 rounds up, and another contour is discarded.
C4_RetainedByRounding ==
  /\ pc = "filtered"
  /\ \E i \in DOMAIN contours :
       TwiceShoelaceArea(contours[i].points)
         = 2 * config.minimum_edge_area + 1
  /\ Len(kept) < Len(contours)
  /\ kept # << >>

\* The on pixels of the mask being filtered, and their extent.
OnPixels == {p \in Pixels : edges[p] = 255}
RectWidth == Max({p[1] : p \in OnPixels}) - Min({p[1] : p \in OnPixels}) + 1
RectHeight == Max({p[2] : p \in OnPixels}) - Min({p[2] : p \in OnPixels}) + 1

\* The mask's only on region is a filled axis-aligned rectangle.
IsRectangle ==
  /\ OnPixels # {}
  /\ Cardinality(OnPixels) = RectWidth * RectHeight

C6_Idempotent ==
  pc = "refiltered" => \A p \in Pixels : refiltered[p] = filtered_edges[p]

\* C6's case: the first run changed the mask and left something in it.
C6_SecondRunOnChangedMask ==
  /\ pc = "refiltered"
  /\ filtered_edges # edges
  /\ filtered_edges # Blank

\* Pixel p lies on the segment from a to b.
OnSegment(a, b, p) ==
  /\ (b[1] - a[1]) * (p[2] - a[2]) = (b[2] - a[2]) * (p[1] - a[1])
  /\ Min({a[1], b[1]}) <= p[1] /\ p[1] <= Max({a[1], b[1]})
  /\ Min({a[2], b[2]}) <= p[2] /\ p[2] <= Max({a[2], b[2]})

\* The winding number of the closed polygon round p, counted over the
\* edges from the i-th on.
RECURSIVE Winding(_, _, _)
Winding(poly, i, p) ==
  IF i > Len(poly) THEN 0
  ELSE LET a == poly[i]
           b == poly[(i % Len(poly)) + 1]
           side == (b[1] - a[1]) * (p[2] - a[2]) - (p[1] - a[1]) * (b[2] - a[2])
           turn == IF a[2] <= p[2] /\ p[2] < b[2] /\ side > 0 THEN 1
                   ELSE IF b[2] <= p[2] /\ p[2] < a[2] /\ side < 0 THEN -1
                   ELSE 0
       IN  turn + Winding(poly, i + 1, p)

\* p lies on or inside the closed polygon.
OnOrInside(poly, p) ==
  \/ \E i \in DOMAIN poly : OnSegment(poly[i], poly[(i % Len(poly)) + 1], p)
  \/ Winding(poly, 1, p) # 0

\* C7: every on pixel of the output lies on or inside the closed polygon
\* of some contour of the input mask whose rounded area exceeds
\* minimum_area; a pixel covered only by contours that fail the test is off.
C7_OnPixelsWithinRetainedContours ==
  Filtered =>
    \A p \in Pixels :
      filtered_edges[p] # 0 =>
        \E i \in DOMAIN contours :
          /\ RoundedShoelaceArea(contours[i].points)
               > config.minimum_edge_area
          /\ OnOrInside(contours[i].points, p)

\* C7's case: a contour fails the test, its pixels are off in the output,
\* and another contour is drawn.
C7_FailedContourLeavesNoPixel ==
  /\ pc = "filtered"
  /\ filtered_edges # Blank
  /\ \E i \in DOMAIN contours :
       /\ RoundedShoelaceArea(contours[i].points)
            <= config.minimum_edge_area
       /\ \E k \in DOMAIN contours[i].points :
            /\ edges[contours[i].points[k]] = 255
            /\ filtered_edges[contours[i].points[k]] = 0

\* C8: for thresholds t1 <= t2 the contours retained at t2 are those of the
\* contours retained at t1 whose rounded area exceeds t2, in the same
\* order: a subset, and never more in number.
C8_RaisingThresholdKeepsSubset ==
  pc = "raised" =>
    /\ config.minimum_edge_area <= raised_area
    /\ kept_raised = SelectSeq(kept,
                       LAMBDA c : RoundedShoelaceArea(c.points) > raised_area)
    /\ \A i \in DOMAIN kept_raised :
         \E j \in DOMAIN kept : kept[j] = kept_raised[i]
    /\ Len(kept_raised) <= Len(kept)

\* C8's case: raising the threshold drops one contour and keeps another.
C8_RaisedThresholdDropsSome ==
  /\ pc = "raised"
  /\ config.minimum_edge_area < raised_area
  /\ kept_raised # << >>
  /\ Len(kept_raised) < Len(kept)

(* ---------------------------------------------------------------------- *)
(* Properties of absolute_contrast_threshold (under SpecContrast)          *)
(* ---------------------------------------------------------------------- *)
\* A coordinate held inside 0 .. n - 1.
Inside(v, n) == IF v < 0 THEN 0 ELSE IF n - 1 < v THEN n - 1 ELSE v

\* |I(clamp(p - v)) - I(clamp(p + v))| on the input image.
OpposingDifference(p, v) ==
  LET a == input_image[<< Inside(p[1] - v[1], Width),
                          Inside(p[2] - v[2], Height) >>]
      b == input_image[<< Inside(p[1] + v[1], Width),
                          Inside(p[2] + v[2], Height) >>]
  IN  IF a < b THEN b - a ELSE a - b

\* The sum over the 4 opposing pairs, and over the 8 non-zero offsets.
FourPairSum(p) ==
  OpposingDifference(p, << 1, 0 >>) + OpposingDifference(p, << 0, 1 >>)
    + OpposingDifference(p, << 1, 1 >>) + OpposingDifference(p, << 1, -1 >>)
EightOffsetSum(p) ==
  OpposingDifference(p, << 1, 0 >>) + OpposingDifference(p, << 0, 1 >>)
    + OpposingDifference(p, << 1, 1 >>) + OpposingDifference(p, << 1, -1 >>)
    + OpposingDifference(p, << -1, 0 >>) + OpposingDifference(p, << 0, -1 >>)
    + OpposingDifference(p, << -1, -1 >>) + OpposingDifference(p, << -1, 1 >>)

\* C9: for every pixel p, border pixels included, the magnitude
\* m(p) = (1/8) * the sum over the 8 non-zero offsets of the clamped
\* opposing differences lies in [0, 255] and equals the mean of the 4
\* opposing-pair differences; the mask pixel is 255 iff m(p) is strictly
\* greater than the threshold and 0 otherwise; the magnitude image holds
\* m(p) rounded to the nearest integer.
C9_ContrastMagnitudeAndMask ==
  pc = "edges" =>
    \A p \in Pixels :
      LET eight == EightOffsetSum(p)
      IN  /\ 0 <= eight /\ eight <= 8 * 255
          /\ 4 * eight = 8 * FourPairSum(p)
          /\ edges[p] =
               IF eight > config.contrast_threshold8 THEN 255 ELSE 0
          /\ 8 * edge_sharpness[p] - 4 <= eight
          /\ eight < 8 * edge_sharpness[p] + 4

\* C9's case: a corner pixel, whose neighbours are clamped, is on, and a
\* pixel whose magnitude equals a positive threshold is off.
C9_ClampedCornerOnAndTieOff ==
  /\ pc = "edges"
  /\ config.contrast_threshold8 > 0
  /\ edges[<< 0, 0 >>] = 255
  /\ \E q \in Pixels :
       EightOffsetSum(q) = config.contrast_threshold8 /\ edges[q] = 0

(* ---------------------------------------------------------------------- *)
(* Properties of the radius adjustment (under Spec)                        *)
(* ---------------------------------------------------------------------- *)
\* The raw image's pixels above the contour threshold of 1.
RawForeground == {q \in Pixels : input_image[q] > 1}

\* Twice the signed area of the triangle a, b, p.
Side(a, b, p) ==
  (b[1] - a[1]) * (p[2] - a[2]) - (b[2] - a[2]) * (p[1] - a[1])

\* The directed lines through two foreground pixels that have no foreground
\* pixel on their negative side: the lines carrying the hull's edges.
SupportingLines ==
  {l \in RawForeground \X RawForeground :
     /\ l[1] # l[2]
     /\ \A q \in RawForeground : Side(l[1], l[2], q) >= 0}

\* The pixels strictly inside the convex hull of the raw image's contour
\* points: strictly on the positive side of every supporting line. A hull
\* of a single point has no supporting line and no interior.
StrictlyInsideHull ==
  LET lines == SupportingLines
  IN  {p \in Pixels :
         /\ lines # {}
         /\ \A l \in lines : Side(l[1], l[2], p) > 0}

\* The pixels of the closed hull: on no supporting line's negative side,
\* and within the foreground's extent.
InClosedHull ==
  LET lines == SupportingLines
  IN  {p \in Pixels :
         /\ \A l \in lines : Side(l[1], l[2], p) >= 0
         /\ \E q \in RawForeground : q[1] <= p[1]
         /\ \E q \in RawForeground : p[1] <= q[1]
         /\ \E q \in RawForeground : q[2] <= p[2]
         /\ \E q \in RawForeground : p[2] <= q[2]}

\* The rounded distance from p to the centre (Width, Height / 2).
RoundedCentreDistance(p) ==
  LET dx == Width - p[1]
      dy == p[2] - Height \div 2
      n == dx * dx + dy * dy
  IN  CHOOSE d \in 0 .. n : (2 * d - 1) * (2 * d - 1) <= 4 * n
                              /\ 4 * n < (2 * d + 1) * (2 * d + 1)

\* The raster index of pixel p.
RasterIndex(p) == p[2] * Width + p[1]

\* y - height / 2 leaves the u32 range at pixel p and the build checks it.
HaltsAt(p) == overflow_checks /\ p[2] < Height \div 2

\* The loop gets as far as the hull test of pixel p, no pixel of inside
\* having halted it before.
ReachedByLoop(inside, p) ==
  \A q \in inside : RasterIndex(q) < RasterIndex(p) => ~HaltsAt(q)

\* The 'outer loop has run on a non-empty hull.
LoopRan ==
  /\ hull # << >>
  /\ \/ pc \in {"buckets", "panicked"}
     \/ pc = "returned" /\ config.radius_adjusted /\ result.kind = "Ok"

\* C10: in radius-adjusted mode a pixel of the exclusion mask is
\* accumulated into the radial bucket table if and only if it lies strictly
\* inside the convex hull of the raw image's contour points.
C10_AccumulatedIffStrictlyInside ==
  LoopRan => radius_loop.accumulated = StrictlyInsideHull

\* C10, as the code has it: a pixel the loop reaches passes the hull test
\* if and only if it lies strictly inside the convex hull of the raw
\* image's contour points, a pixel outside or exactly on an edge being
\* skipped; a pixel that passes is accumulated if and only if its rounded
\* distance from the centre is less than the image width, the loop halting
\* at the first passing pixel whose distance overflows in a build with
\* overflow checks.
C10_HullTestIsStrictInterior ==
  LoopRan =>
    LET inside == StrictlyInsideHull
    IN  /\ radius_loop.included = {p \in inside : ReachedByLoop(inside, p)}
        /\ radius_loop.accumulated =
             {p \in radius_loop.included :
                ~HaltsAt(p) /\ RoundedCentreDistance(p) < Width}
        /\ radius_loop.panicked <=> \E p \in inside : HaltsAt(p)

\* C10's case: the loop has finished, a pixel on an edge of the hull was
\* skipped, and of the pixels that passed the test one was accumulated and
\* one was dropped for its distance.
C10_EdgeSkippedInteriorSplit ==
  /\ pc = "buckets"
  /\ radius_loop.accumulated # {}
  /\ radius_loop.included \ radius_loop.accumulated # {}
  /\ LET edge == InClosedHull \ StrictlyInsideHull
     IN  edge # {} /\ edge \cap radius_loop.included = {}
  /\ Pixels \ InClosedHull # {}

\* The changed mask agrees with the exclusion mask on every pixel strictly
\* inside the hull.
AgreeInsideHull ==
  \A p \in StrictlyInsideHull : margin_zone[p] = bacteria_exclusion_zone[p]

\* C11: margin pixels do not influence the radius-adjusted result: for a
\* fixed image size and hull, two exclusion masks that agree on every pixel
\* strictly inside the hull produce the same radial bucket table and the
\* same corrected ratio, whatever their values at pixels on or outside the
\* hull.
C11_MarginPixelsDoNotInfluence ==
  (pc = "changed_zone" /\ AgreeInsideHull) =>
    /\ margin_loop.panicked = radius_loop.panicked
    /\ margin_loop.buckets = radius_loop.buckets
    /\ margin_ratio = AdjustedRatio(radius_loop.buckets)

\* C11's case: the loop ran to its end on both masks, which differ at a
\* pixel on an edge of the hull only, and pixels were accumulated.
C11_EdgePixelChanged ==
  /\ pc = "changed_zone"
  /\ ~radius_loop.panicked
  /\ radius_loop.accumulated # {}
  /\ AgreeInsideHull
  /\ LET changed == {p \in Pixels : margin_zone[p] # bacteria_exclusion_zone[p]}
     IN  /\ changed # {}
         /\ changed \subseteq InClosedHull \ StrictlyInsideHull
         /\ \E p \in changed : Width - p[1] < Width

\* The pixels that passed the hull test without halting the loop.
Sampled == {p \in radius_loop.included : ~HaltsAt(p)}

\* The pixels of a set that are on in the exclusion mask.
OnInZone(set) == {p \in set : bacteria_exclusion_zone[p] = 255}

\* C12: the radial bucket table has exactly image-width entries and is
\* never indexed out of range: for every included pixel, a rounded centre
\* distance d >= table length is dropped (the pixel changes no bucket, it is
\* not clamped into the last bucket), and a distance d < table length
\* increments only bucket d's sample count (and its sum iff the mask pixel
\* is 255).
C12_BucketsIndexedByDistance ==
  LoopRan =>
    LET sampled == Sampled
    IN  /\ DOMAIN radius_loop.buckets = 0 .. Width - 1
        /\ \A d \in 0 .. Width - 1 :
             LET at_d == {p \in sampled : RoundedCentreDistance(p) = d}
             IN  radius_loop.buckets[d] =
                   << Cardinality(OnInZone(at_d)), Cardinality(at_d) >>
        /\ radius_loop.accumulated =
             {p \in sampled : RoundedCentreDistance(p) < Width}

\* C12's case: the loop has finished; a pixel that is on in the mask was
\* dropped for its distance, and the last bucket holds samples.
C12_DroppedBeyondLastBucket ==
  /\ pc = "buckets"
  /\ \E p \in OnInZone(Sampled) : RoundedCentreDistance(p) >= Width
  /\ radius_loop.buckets[Width - 1][2] > 0
  /\ \E d \in 0 .. Width - 1 :
       0 < radius_loop.buckets[d][1]
         /\ radius_loop.buckets[d][1] < radius_loop.buckets[d][2]

\* mean(d) as a pair << numerator, denominator >>: the fraction of the
\* sampled pixels at rounded distance d that are on in the exclusion mask,
\* 0 where there is none.
MeanAt(d) ==
  LET at_d == {p \in Sampled : RoundedCentreDistance(p) = d}
  IN  IF at_d = {} THEN << 0, 1 >>
      ELSE << Cardinality(OnInZone(at_d)), Cardinality(at_d) >>

\* The sum over the buckets 0 .. d of mean * (d^2 - (d - 1)^2), as a pair
\* << numerator, denominator >>, in units of pi.
RECURSIVE AnnulusSum(_)
AnnulusSum(d) ==
  IF d < 0 THEN << 0, 1 >>
  ELSE LET rest == AnnulusSum(d - 1)
           mean == MeanAt(d)
           area == d * d - (d - 1) * (d - 1)
       IN  << rest[1] * mean[2] + area * mean[1] * rest[2],
              rest[2] * mean[2] >>

\* C13: in radius-adjusted mode the returned ratio equals the sum over all
\* buckets d of mean(d) * (pi*d^2 - pi*(d-1)^2) divided by pi*(width-1)^2,
\* where mean(d) is the fraction of included pixels at rounded distance d
\* that are on in the exclusion mask (0 for a bucket with no samples); when
\* radius adjustment is disabled the returned ratio is instead exactly
\* on-pixel count / (width*height).
C13_ReturnedRatio ==
  (pc = "returned" /\ result.kind = "Ok") =>
    IF config.radius_adjusted
      THEN LET sum == AnnulusSum(Width - 1)
           IN  result.ratio[1] * sum[2] * (Width - 1) * (Width - 1)
                 = sum[1] * result.ratio[2]
      ELSE result.ratio[1] * Width * Height
             = Cardinality(OnInZone(Pixels)) * result.ratio[2]

\* C13's case: a radius-adjusted call has returned a ratio strictly between
\* 0 and 1 from a table with a bucket of several samples only some of
\* which are on, and with a bucket without samples.
C13_MixedBucketReturned ==
  /\ pc = "returned"
  /\ result.kind = "Ok"
  /\ config.radius_adjusted
  /\ 0 < result.ratio[1]
  /\ result.ratio[1] < result.ratio[2]
  /\ \E d \in 0 .. Width - 1 :
       0 < radius_loop.buckets[d][1]
         /\ radius_loop.buckets[d][1] < radius_loop.buckets[d][2]
  /\ \E d \in 1 .. Width - 1 : radius_loop.buckets[d][2] = 0

\* The squared Euclidean distance of two points, in unbounded integers.
SquaredEuclidean(a, b) ==
  (a[1] - b[1]) * (a[1] - b[1]) + (a[2] - b[2]) * (a[2] - b[2])

\* The largest squared distance between two points of a sample.
MaxPairSquared(samples) ==
  Max({SquaredEuclidean(samples[i], samples[j]) :
         i \in 1 .. Len(samples), j \in 1 .. Len(samples)})

\* The largest cross product of a sample point with the line p1-p2: the
\* largest perpendicular distance times |p1 p2|.
MaxCross(pass) ==
  Max({LineCross(pass.point_1, pass.point_2, pass.samples[i]) :
         i \in 1 .. Len(pass.samples)})

\* max pairwise distance * scale >= min_graphene_size.
LongEnough(pass) ==
  \/ angle_config.min_graphene_size10 <= 0
  \/ MaxPairSquared(pass.samples) * angle_scale * angle_scale
       >= angle_config.min_graphene_size10 * angle_config.min_graphene_size10

\* max pairwise distance / max perpendicular distance >= min_graphene_ratio,
\* the quotient being d^2 / cross. A perpendicular distance of 0 under a
\* positive length is read as an infinite quotient; 0 / 0 is no quotient.
Elongated(pass) ==
  LET squared == MaxPairSquared(pass.samples)
      cross == MaxCross(pass)
  IN  /\ squared > 0
      /\ squared * 10 >= angle_config.min_graphene_ratio10 * cross

\* The passes over outer contours.
OuterPasses == {i \in 1 .. Len(passes) : passes[i].outcome # "hole"}

\* C14: graphene_angles emits a flake (angle and length) for an outer
\* contour if and only if, over the sample set S of every 5th contour point,
\* max pairwise distance * scale >= min_graphene_size and (max pairwise
\* distance / max perpendicular distance of S to the line p1-p2) >=
\* min_graphene_ratio; every emitted length is >= min_graphene_size.
C14_EmittedIffLongAndElongated ==
  /\ \A i \in OuterPasses :
       passes[i].outcome = "emitted"
         <=> (LongEnough(passes[i]) /\ Elongated(passes[i]))
  /\ \A k \in 1 .. Len(lengths) :
       \/ angle_config.min_graphene_size10 <= 0
       \/ lengths[k] >= angle_config.min_graphene_size10
                          * angle_config.min_graphene_size10

\* The sampled points of a pass are all on one line through p1 and p2.
Collinear(pass) ==
  /\ Len(pass.samples) > 1
  /\ \A i, j, k \in 1 .. Len(pass.samples) :
       Side(pass.samples[i], pass.samples[j], pass.samples[k]) = 0

\* C15: a degenerate perfectly straight contour, one whose sampled points
\* are all collinear so that the maximum perpendicular distance to the line
\* p1-p2 is zero, is rejected by graphene_angles: no angle and no length is
\* emitted for it, for every minimum elongation ratio.
C15_StraightContourRejected ==
  \A i \in OuterPasses :
    Collinear(passes[i]) => passes[i].outcome # "emitted"

\* Two angles are equal modulo pi: their directions are parallel.
EqualModuloPi(a, b) == a.dir[1] * b.dir[2] = a.dir[2] * b.dir[1]

\* C16: for every contour, the orientation angle graphene_angles computes
\* for the contour and the angle it computes for the same contour with its
\* point order reversed are equal modulo pi.
C16_ReversalKeepsAngle ==
  angle_pc = "reversed" =>
    LET pass == passes[reversed_index]
    IN  /\ pass.outcome = "emitted" <=> reversed_pass.outcome = "emitted"
        /\ (pass.outcome = "emitted" /\ reversed_pass.outcome = "emitted")
             => EqualModuloPi(pass.angle, reversed_pass.angle)

\* An angle record stands for a value in (-pi/2, pi/2]: pi/2 minus an
\* angle of [0, pi), which is a direction of the closed upper half plane
\* without the negative x axis, with no half turn added.
InHalfOpenInterval(angle) ==
  /\ angle.half_turns = 0
  /\ angle.dir[2] > 0 \/ (angle.dir[2] = 0 /\ angle.dir[1] > 0)

\* The passes that pushed a flake, the one on a reversed contour included.
EmittedPasses ==
  {passes[i] : i \in {j \in 1 .. Len(passes) : passes[j].outcome = "emitted"}}
    \cup (IF reversed_pass.outcome = "emitted" THEN {reversed_pass} ELSE {})

\* C17: every orientation angle emitted by graphene_angles lies in the
\* half-open interval (-pi/2, pi/2]: it is pi/2 minus the p1->p2 direction
\* angle reduced into [0, pi), so swapping p1 and p2 gives the same angle, a
\* horizontal axis gives pi/2 and no emitted angle is <= -pi/2 or > pi/2.
C17_AngleInHalfOpenInterval ==
  /\ \A pass \in EmittedPasses :
       LET dx == pass.point_2[1] - pass.point_1[1]
           dy == pass.point_2[2] - pass.point_1[2]
       IN  /\ InHalfOpenInterval(pass.angle)
           /\ pass.angle.dir[1] * dy = pass.angle.dir[2] * dx
           /\ pass.angle = FlakeAngle(pass.point_2, pass.point_1)
           /\ dy = 0 => pass.angle.dir[2] = 0
  /\ \A k \in 1 .. Len(angles) :
       /\ InHalfOpenInterval(angles[k])
       /\ angles[k] = points_and_angles[k].angle

\* C17's case: the returned angles hold one whose axis runs from p1 up to
\* p2, atan2 being negative before the reduction.
C17_UpwardAxisReduced ==
  /\ angle_pc = "returned"
  /\ Len(angles) > 0
  /\ \E pass \in EmittedPasses :
       /\ pass.point_2[2] < pass.point_1[2]
       /\ pass.angle.dir[2] > 0

\* The targets whose closure ran to its end, and those dropped for an error
\* of determine_scale or bacteria_exclusion.
ReturnedTargets == {i \in 1 .. Len(targets) : worker_pc[i] = "returned"}
DiscardedTargets == {i \in 1 .. Len(targets) : worker_pc[i] = "discarded"}

\* C18: batch fail-soft policy: when batch runs with discard_error set, an
\* image whose scale detection or exclusion computation returns an error
\* contributes no value to the aggregated ratios and every other target is
\* still processed and contributes exactly one value (when bacteria
\* exclusion is enabled); when discard_error is not set, the first such
\* error aborts the batch.
C18_FailSoft ==
  /\ discard_error => batch_pc # "aborted"
  /\ (batch_pc = "collected" /\ batch_config.bacteria_exclusion_enabled) =>
       /\ ReturnedTargets \cup DiscardedTargets = 1 .. Len(targets)
       /\ Len(bacteria_exclusion_ratios) = Cardinality(ReturnedTargets)
       /\ \A i \in ReturnedTargets :
            bacteria_exclusion_ratios[Cardinality({j \in ReturnedTargets :
                                                    j <= i})]
              = return_status[i][2]
  /\ (~discard_error /\ \E i \in 1 .. Len(targets) :
                           worker_pc[i] = "error_panic")
       => batch_pc # "collected"
  /\ ~discard_error => DiscardedTargets = {}

\* C19: parallel per-image invocations in a batch share no mutable state:
\* for any two distinct target files processed concurrently, the sets of
\* resources they write (the output files derived from each target's output
\* prefix, including the radius CSV and diagnostic images) are disjoint, so
\* no interleaving of two workers can write the same output.
C19_WritesDisjoint ==
  \A w1, w2 \in writes : w1[2] # w2[2] => w1[1] # w2[1]

\* An image of the input's width and height with every pixel 0 or 255.
IsBinaryMask(image) ==
  /\ DOMAIN image = DOMAIN input_image
  /\ \A p \in DOMAIN image : image[p] \in {0, 255}

\* A mask with pixels of both values.
HasBothValues(image) ==
  /\ \E p \in Pixels : image[p] = 0
  /\ \E p \in Pixels : image[p] = 255

\* C20: every binary mask produced by the pipeline (the thresholded
\* contrast mask, the area-filtered mask and the exclusion mask) has the
\* same width and height as its input image and every one of its pixels is
\* exactly 0 or 255.
C20_MasksAreBinary ==
  /\ IsBinaryMask(edges)
  /\ IsBinaryMask(filtered_edges)
  /\ IsBinaryMask(bacteria_exclusion_zone)

\* C20's case: the three masks have been computed, each has pixels of both
\* values and no two of them are the same.
C20_ThreeMasksComputed ==
  /\ pc = "zone"
  /\ HasBothValues(edges)
  /\ HasBothValues(filtered_edges)
  /\ HasBothValues(bacteria_exclusion_zone)
  /\ edges # filtered_edges
  /\ filtered_edges # bacteria_exclusion_zone
  /\ \E p \in Pixels : input_image[p] \notin {0, 255}

\* C21: for every included pixel (x, y) of the image, including pixels with
\* y < height/2, the bucket index computed in radius-adjusted mode equals
\* round(sqrt((width - x)^2 + (y - floor(height/2))^2)), the rounded
\* Euclidean distance from the assumed optical centre (width, height/2),
\* with no underflow or overflow of the unsigned 32-bit intermediate
\* arithmetic.
C21_BucketIndexWithoutOverflow ==
  LoopRan =>
    \A p \in radius_loop.included :
      /\ ~CentreDistanceOverflows(p)
      /\ CentreDistance(p) = RoundedCentreDistance(p)

\* C22: for every ordered pair of sample points (a, b) of a contour,
\* including pairs where a.x < b.x or a.y < b.y, the distance
\* graphene_angles computes equals the Euclidean distance
\* sqrt((a.x-b.x)^2 + (a.y-b.y)^2) with no underflow or overflow of the
\* unsigned 32-bit coordinate arithmetic, so the selected pair (p1, p2)
\* maximizes Euclidean distance over the sample set S.
C22_PairDistanceWithoutOverflow ==
  \A i \in OuterPasses :
    LET samples == passes[i].samples
    IN  /\ \A j, k \in 1 .. Len(samples) :
             /\ ~PairDistanceOverflows(samples[j], samples[k])
             /\ PairSquaredDistance(samples[j], samples[k])
                  = SquaredEuclidean(samples[j], samples[k])
        /\ SquaredEuclidean(passes[i].point_1, passes[i].point_2)
             = MaxPairSquared(samples)

QualifyingLines == {found_lines.accepted[i] : i \in DOMAIN found_lines.accepted}

\* determine_scale has returned the error.
ReturnedError(error) ==
  /\ scale_pc = "returned"
  /\ scale_status.kind = "Err"
  /\ scale_status.error = error

\* The two tests on the lines are done and neither has returned.
PastLineValidation ==
  \/ scale_pc \in {"validated", "cropped", "panicked"}
  \/ /\ scale_pc = "returned"
     /\ ~ReturnedError("LessThenTwoApplicableLinesFound")
     /\ ~ReturnedError("ExtremeLineIsNonHorizontal")

\* C24: when the scale is not overridden, determine_scale gets past the
\* validation of the lines only if at least two distinct lines of 16 pixels
\* or more were found in the footer; with no such line or exactly one it
\* returns LessThenTwoApplicableLinesFound, and with extreme lines whose
\* horizontal separation is less than 20 times their vertical separation
\* it returns ExtremeLineIsNonHorizontal.
C24_TwoLinesOrError ==
  (~text_config.override_scale
     /\ scale_pc \in {"validated", "cropped", "panicked", "returned"}) =>
    /\ PastLineValidation => Cardinality(QualifyingLines) >= 2
    /\ Cardinality(QualifyingLines) <= 1 =>
         ReturnedError("LessThenTwoApplicableLinesFound")
    /\ (/\ Cardinality(QualifyingLines) >= 2
        /\ NonHorizontal(found_lines.minimum_line, found_lines.maximum_line))
         => ReturnedError("ExtremeLineIsNonHorizontal")

(* ---------------------------------------------------------------------- *)
(* Range of the returned ratio (under Spec)                                *)
(* ---------------------------------------------------------------------- *)
\* The fraction << numerator, denominator >> lies in [0, 1].
InUnitInterval(ratio) ==
  /\ 0 < ratio[2]
  /\ 0 <= ratio[1]
  /\ ratio[1] <= ratio[2]

\* C25: the ratio bacteria_exclusion returns lies in [0, 1] in both modes;
\* in radius-adjusted mode every pixel that passes the hull test has a centre
\* distance of at least 1, so bucket 0 is never populated, every bucket mean
\* lies in [0, 1], and the weighted sum of the means, in units of pi, does
\* not exceed (width - 1)^2.
C25_RatioInUnitInterval ==
  (pc = "returned" /\ result.kind = "Ok") =>
    /\ InUnitInterval(result.ratio)
    /\ config.radius_adjusted =>
         /\ \A p \in radius_loop.included : CentreDistance(p) >= 1
         /\ radius_loop.buckets[0] = << 0, 0 >>
         /\ \A d \in 0 .. Width - 1 :
              InUnitInterval(BucketMean(radius_loop.buckets[d]))
         /\ LET sum == WeightedSum(radius_loop.buckets, 0)
            IN  /\ 0 <= sum[1]
                /\ sum[1] <= sum[2] * (Width - 1) * (Width - 1)

\* C25's case: a radius-adjusted call has returned a ratio above 1/2 from a
\* table whose buckets 2 and 3 hold samples that are all on (every mean is
\* then 1 or the 0 of an empty bucket), bucket 0 being empty.
C25_PopulatedBucketsFull ==
  /\ pc = "returned"
  /\ result.kind = "Ok"
  /\ config.radius_adjusted
  /\ 2 * result.ratio[1] > result.ratio[2]
  /\ \A d \in {2, 3} :
       /\ radius_loop.buckets[d][2] > 0
       /\ radius_loop.buckets[d][1] = radius_loop.buckets[d][2]
  /\ radius_loop.buckets[0] = << 0, 0 >>

(* ---------------------------------------------------------------------- *)
(* Contours without area (under SpecFilter)                                *)
(* ---------------------------------------------------------------------- *)
\* The contour has a single point, its first and its last.
SinglePoint(c) == Len(c.points) = 1

\* The contour's points lie on one straight line: the border of a line of
\* pixels one pixel wide, traced forth and back.
OnePixelWideLine(c) ==
  \A i, j, k \in DOMAIN c.points :
    Side(c.points[i], c.points[j], c.points[k]) = 0

\* The contours handed to draw_polygon_mut.
Drawn == {kept[j] : j \in DOMAIN kept}

\* C26: in filter_by_minimum_area a contour whose shoelace area rounds to
\* zero is discarded for every minimum_area >= 0, 0 included; every
\* single-point contour and every line one pixel wide is such a contour; so
\* no such contour is passed to the rasterization of polygons, which
\* therefore never meets a polygon whose first and last point coincide.
C26_ZeroAreaDiscarded ==
  (Filtered \/ pc = "panicked") =>
    /\ config.minimum_edge_area >= 0
    /\ \A i \in DOMAIN contours :
         /\ (SinglePoint(contours[i]) \/ OnePixelWideLine(contours[i]))
              => RoundedShoelaceArea(contours[i].points) = 0
         /\ RoundedShoelaceArea(contours[i].points) = 0
              => contours[i] \notin Drawn
    /\ \A c \in Drawn :
         /\ RoundedShoelaceArea(c.points) > 0
         /\ c.points[1] # c.points[Len(c.points)]
    /\ pc # "panicked"

\* C26's case: with a minimum area of 0 the mask holds a single-point
\* contour and a line of several pixels, and both are discarded.
C26_PointAndLineDiscardedAtZero ==
  /\ pc = "filtered"
  /\ config.minimum_edge_area = 0
  /\ \E i, j \in DOMAIN contours :
       /\ SinglePoint(contours[i])
       /\ contours[i] \notin Drawn
       /\ ~SinglePoint(contours[j])
       /\ OnePixelWideLine(contours[j])
       /\ contours[j] \notin Drawn
====
